---- MODULE Spec2Model ----
(***************************************************************************)
(* Model of the local background-removal engine (class BackgroundRemover). *)
(*                                                                         *)
(* Number representation.  JavaScript numbers are modelled as exact reals; *)
(* TLC has integers only, so:                                              *)
(*   - an RGB distance sqrt(n) is carried as its square n (an integer);    *)
(*   - model.tolerance t is carried as tolSq16 = 16*t*t, and               *)
(*     model.expansionTolerance e as expSq400 = 400*e*e (1.25 = 5/4,       *)
(*     1.35 = 27/20), both integers;                                       *)
(*   - luma and gradient are carried in thousandths (0.299 = 299/1000);    *)
(*   - a matte value is a fraction <<num, den>>;                           *)
(*   - NaN and undefined are explicit flags (nan, def).                    *)
(* Comparisons between such values are decided exactly (SqrtLeq, ProdLeq). *)
(* The rounding of 64-bit and 32-bit floats (Float32Array) is not          *)
(* modelled.                                                                *)
(***************************************************************************)
EXTENDS Integers, Sequences, FiniteSets, TLC

VARIABLES
    pc,               \* position in the pipeline (the last stage that ran)
    width, height,    \* dimensions of the working buffer
    data,             \* the RGBA buffer: pixel index -> [def, r, g, b, a]
    featherAmount,    \* this.featherAmount
    model,            \* result of estimateBackgroundModel
    gradient,         \* result of computeGradientMap (thousandths)
    seeds,            \* result of collectBorderSeeds (a sequence of indices)
    backgroundRegion, \* result of growBackgroundRegion (visited)
    maskIn,           \* the mask the last mask stage received (for the
                      \* closing: the mask its opening received)
    foregroundMask,   \* the current binary foreground mask
    matte,            \* result of softenBinaryMask
    cropBounds,       \* result of computeCropBoundsFromMask
    call,             \* one removeBackground call: options, position, engines run
    compressor,       \* one ImageCompressor.compress call
    selection,        \* the component selection of keepMainForegroundRegions
                      \* on component statistics
    morphRadius,      \* the radius argument of dilateBinary and erodeBinary
    options,          \* the featherAmount given in the configuration, and how
    imgly,            \* imglyModulePromise, imglyRemoveBackgroundFn and the
                      \* calls of loadImglyRemoveBackground
    page              \* the page of the background remover: currentFile, the
                      \* start button, the runs of processImage, the previews

\* the variables of the morphology, the configuration, the module loader and
\* the page
rest == <<morphRadius, options, imgly, page>>

\* the variables outside the segmentation pipeline
aux == <<call, compressor, selection, rest>>

vars == <<pc, width, height, data, featherAmount, model, gradient, seeds,
          backgroundRegion, maskIn, foregroundMask, matte, cropBounds,
          call, compressor, selection, morphRadius, options, imgly, page>>

----------------------------------------------------------------------------
(* Arithmetic helpers *)

Min(a, b) == IF a <= b THEN a ELSE b

Max(a, b) == IF a >= b THEN a ELSE b

Abs(a) == IF a < 0 THEN -a ELSE a

\* Math.round(a / b) for a >= 0, b > 0 (round half up)
RoundDiv(a, b) == (2 * a + b) \div (2 * b)

\* Math.floor(a / b), Math.ceil(a / b) for a >= 0, b > 0
FloorDiv(a, b) == a \div b

CeilDiv(a, b) == (a + b - 1) \div b

RECURSIVE Gcd(_, _)
Gcd(a, b) == IF b = 0 THEN a ELSE Gcd(b, a % b)

\* a*b <= c*d for naturals, decided without forming the products
\* (Euclid's algorithm on a/c <= d/b).
RECURSIVE ProdLeq(_, _, _, _)
ProdLeq(a, b, c, d) ==
    IF a = 0 \/ b = 0 THEN TRUE
    ELSE IF c = 0 \/ d = 0 THEN FALSE
    ELSE LET q1 == a \div c
             q2 == d \div b
             r1 == a % c
             r2 == d % b
         IN  IF q1 < q2 THEN TRUE
             ELSE IF q1 > q2 THEN FALSE
             ELSE IF r1 = 0 THEN TRUE
             ELSE IF r2 = 0 THEN FALSE
             ELSE ProdLeq(b, r1, r2, c)

\* sqrt(X) <= sqrt(Y) + n for naturals X, Y, n
SqrtLeq(X, Y, n) ==
    IF X <= Y THEN TRUE
    ELSE LET D == X - Y - n * n
         IN  IF D <= 0 THEN TRUE
             ELSE IF n = 0 THEN FALSE
             ELSE ProdLeq(D, D, 4 * n * n, Y)

\* sqrt(X) < sqrt(Y) + n for naturals X, Y, n
SqrtLt(X, Y, n) ==
    IF n = 0 THEN X < Y
    ELSE LET D == X - Y - n * n
         IN  IF D < 0 THEN TRUE
             ELSE ~ ProdLeq(4 * n * n, Y, D, D)

RECURSIVE SumSeq(_)
SumSeq(s) == IF s = <<>> THEN 0 ELSE Head(s) + SumSeq(Tail(s))

\* Array.prototype.sort((a, b) => a - b) on numbers: the k-th element of the
\* result is the k-th smallest value.
SortAscending(s) ==
    [k \in 1..Len(s) |->
        CHOOSE v \in {s[i] : i \in 1..Len(s)} :
            /\ Cardinality({i \in 1..Len(s) : s[i] < v}) < k
            /\ Cardinality({i \in 1..Len(s) : s[i] <= v}) >= k]

----------------------------------------------------------------------------
(* Pixel buffer *)

\* what reading outside a typed array yields
Undefined == [def |-> FALSE, r |-> 0, g |-> 0, b |-> 0, a |-> 0]

Pixel(r, g, b, a) == [def |-> TRUE, r |-> r, g |-> g, b |-> b, a |-> a]

\* data[p*4 .. p*4+3]: the pixel at flattened index p, undefined outside
\* the buffer (negative or past the end)
ReadPixel(buf, p) == IF p \in DOMAIN buf THEN buf[p] ELSE Undefined

\* square of rgbDistance(r1, g1, b1, r2, g2, b2)
rgbDistance(r1, g1, b1, r2, g2, b2) ==
    (r1 - r2) * (r1 - r2) + (g1 - g2) * (g1 - g2) + (b1 - b2) * (b1 - b2)

\* square of rgbDistanceBetweenIndices(data, first, second)
rgbDistanceBetweenIndices(buf, first, second) ==
    rgbDistance(buf[first].r, buf[first].g, buf[first].b,
                buf[second].r, buf[second].g, buf[second].b)

\* percentileSorted(sortedValues, num/den); sortedValues is 1-based here
percentileSorted(sortedValues, num, den) ==
    IF Len(sortedValues) = 0 THEN 0
    ELSE sortedValues[Min(Len(sortedValues) - 1,
                          Max(0, FloorDiv((Len(sortedValues) - 1) * num, den))) + 1]

\* clamp(value, min, max)
clamp(value, lo, hi) == Max(lo, Min(hi, value))

\* averageColor(samples): NaN as soon as one sample is undefined
averageColor(samples) ==
    IF Len(samples) = 0 THEN [nan |-> FALSE, r |-> 0, g |-> 0, b |-> 0]
    ELSE IF \E i \in 1..Len(samples) : ~ samples[i].def
         THEN [nan |-> TRUE, r |-> 0, g |-> 0, b |-> 0]
    ELSE [nan |-> FALSE,
          r |-> RoundDiv(SumSeq([i \in 1..Len(samples) |-> samples[i].r]), Len(samples)),
          g |-> RoundDiv(SumSeq([i \in 1..Len(samples) |-> samples[i].g]), Len(samples)),
          b |-> RoundDiv(SumSeq([i \in 1..Len(samples) |-> samples[i].b]), Len(samples))]

----------------------------------------------------------------------------
(* estimateBackgroundModel *)

\* border and step of estimateBackgroundModel
ModelBorder(w, h) == Max(6, Min(18, RoundDiv(Min(w, h), 40)))

ModelStep(w, h) == Max(1, RoundDiv(Min(w, h), 320))

\* The flattened pixel positions y*width + x passed to addSample, in call
\* order: the top/bottom band loop, then the left/right band loop.
SamplePositions(w, h) ==
    LET border == ModelBorder(w, h)
        step   == ModelStep(w, h)
        nb     == CeilDiv(border, step)
        nx     == CeilDiv(w, step)
        ny2    == IF h - border > border THEN CeilDiv(h - 2 * border, step) ELSE 0
        first  == [k \in 1..(2 * nb * nx) |->
                     LET j == (k - 1) \div 2
                         y == (j \div nx) * step
                         x == (j % nx) * step
                     IN  IF (k - 1) % 2 = 0 THEN y * w + x
                                            ELSE (h - 1 - y) * w + x]
        second == [k \in 1..(2 * nb * ny2) |->
                     LET j == (k - 1) \div 2
                         x == (j \div ny2) * step
                         y == border + (j % ny2) * step
                     IN  IF (k - 1) % 2 = 0 THEN y * w + x
                                            ELSE y * w + (w - 1 - x)]
    IN  first \o second

\* the samples array: addSample drops a pixel whose alpha is < 16; an
\* undefined alpha is not < 16, so an out-of-buffer read is kept
ModelSamples(buf, w, h) ==
    LET pos  == SamplePositions(w, h)
        read == [k \in 1..Len(pos) |-> ReadPixel(buf, pos[k])]
        Keep(s) == (~ s.def) \/ s.a >= 16
    IN  SelectSeq(read, Keep)

\* the bin key `${r >> 4}-${g >> 4}-${b >> 4}` (undefined >> 4 is 0)
BinKey(s) == IF s.def THEN <<s.r \div 16, s.g \div 16, s.b \div 16>> ELSE <<0, 0, 0>>

\* bins.get(key).count: how many samples share the bin of samples[i]
BinCount(samples, i) ==
    Cardinality({j \in 1..Len(samples) : BinKey(samples[j]) = BinKey(samples[i])})

\* the bin the dominant loop selects: the first inserted among the most
\* populous (Map iterates in insertion order, the test is a strict >);
\* the result is the index of the first sample of that bin
DominantIndex(samples) ==
    CHOOSE i \in 1..Len(samples) :
        /\ \A j \in 1..Len(samples) : BinCount(samples, j) <= BinCount(samples, i)
        /\ \A j \in 1..(i - 1) : BinCount(samples, j) < BinCount(samples, i)

\* { r: round(dominant.r / dominant.count), ... } of the dominant bin
DominantCenter(samples, first) ==
    averageColor(SelectSeq(samples, LAMBDA s : BinKey(s) = BinKey(samples[first])))

\* dist < 42 against the dominant centre (false for NaN)
NearDominant(s, dominant) ==
    /\ s.def
    /\ ~ dominant.nan
    /\ rgbDistance(s.r, s.g, s.b, dominant.r, dominant.g, dominant.b) < 42 * 42

\* nearSamples.length >= 50 ? nearSamples : samples
RefinedPool(samples, nearSamples) ==
    IF Len(nearSamples) >= 50 THEN nearSamples ELSE samples

DegenerateModel ==
    [nan |-> FALSE, r |-> 245, g |-> 245, b |-> 245,
     tolSq16 |-> 16 * 30 * 30, expSq400 |-> 400 * 42 * 42]

NaNModel ==
    [nan |-> TRUE, r |-> 0, g |-> 0, b |-> 0, tolSq16 |-> 0, expSq400 |-> 0]

\* the returned object, from the centre and the 80th / 95th percentile of the
\* squared distances:
\*   tolerance = clamp(max(24, p80*1.25), 24, 110), carried as 16*tolerance^2
\*   expansionTolerance = clamp(max(32, p95*1.35), 32, 135), as 400*expansionTolerance^2
ModelRecord(center, p80, p95) ==
    [nan |-> FALSE, r |-> center.r, g |-> center.g, b |-> center.b,
     tolSq16 |-> clamp(Max(16 * 24 * 24, 25 * p80), 16 * 24 * 24, 16 * 110 * 110),
     expSq400 |-> clamp(Max(400 * 32 * 32, 729 * p95), 400 * 32 * 32, 400 * 135 * 135)]

\* distances.sort((a, b) => a - b) of the pool's distances to the centre
PoolDistances(pool, center) ==
    SortAscending([i \in 1..Len(pool) |->
        rgbDistance(pool[i].r, pool[i].g, pool[i].b, center.r, center.g, center.b)])

ModelFromDistances(center, distances) ==
    ModelRecord(center, percentileSorted(distances, 8, 10),
                percentileSorted(distances, 95, 100))

\* a NaN centre makes every distance, both percentiles and both tolerances NaN
ModelFromCenter(pool, center) ==
    IF center.nan THEN NaNModel
    ELSE ModelFromDistances(center, PoolDistances(pool, center))

ModelFromPool(pool) == ModelFromCenter(pool, averageColor(pool))

ModelFromDominant(samples, dominant) ==
    ModelFromPool(RefinedPool(samples,
                              SelectSeq(samples, LAMBDA s : NearDominant(s, dominant))))

ModelFromSamples(samples) ==
    IF Len(samples) = 0 THEN DegenerateModel
    ELSE ModelFromDominant(samples, DominantCenter(samples, DominantIndex(samples)))

estimateBackgroundModel(buf, w, h) == ModelFromSamples(ModelSamples(buf, w, h))

----------------------------------------------------------------------------
(* computeGradientMap *)

\* luma in thousandths: 0.299 r + 0.587 g + 0.114 b
Luma(px) == 299 * px.r + 587 * px.g + 114 * px.b

\* variant of computeGradientMap giving 0 wherever a neighbour lookup is clamped
computeGradientMapZeroEdges(buf, w, h) ==
    [idx \in 0..(w * h - 1) |->
        IF idx % w = 0 \/ idx % w = w - 1 \/ idx \div w = 0 \/ idx \div w = h - 1
        THEN 0
        ELSE Abs(Luma(buf[idx + 1]) - Luma(buf[idx - 1]))
               + Abs(Luma(buf[idx + w]) - Luma(buf[idx - w]))]

\* gradient[idx] in thousandths: |luma[right] - luma[left]| + |luma[down] - luma[up]|,
\* a neighbour outside the image being replaced by the pixel itself
computeGradientMap(buf, w, h) ==
    [idx \in 0..(w * h - 1) |->
        LET x     == idx % w
            y     == idx \div w
            left  == IF x > 0 THEN idx - 1 ELSE idx
            right == IF x < w - 1 THEN idx + 1 ELSE idx
            up    == IF y > 0 THEN idx - w ELSE idx
            down  == IF y < h - 1 THEN idx + w ELSE idx
        IN  Abs(Luma(buf[right]) - Luma(buf[left]))
              + Abs(Luma(buf[down]) - Luma(buf[up]))]

----------------------------------------------------------------------------
(* collectBorderSeeds *)

\* square of rgbDistanceAt(data, pixelIndex, model.r, model.g, model.b);
\* meaningful only when the model is not NaN
rgbDistanceAt(buf, pixelIndex, m) ==
    rgbDistance(buf[pixelIndex].r, buf[pixelIndex].g, buf[pixelIndex].b, m.r, m.g, m.b)

\* dist <= model.tolerance (false when the model is NaN)
WithinTolerance(buf, idx, m) ==
    (~ m.nan) /\ 16 * rgbDistanceAt(buf, idx, m) <= m.tolSq16

BorderThickness(w, h) == Max(1, RoundDiv(Min(w, h), 100))

\* the indices passed to consider(), in call order
BorderCandidates(w, h) ==
    LET bt  == BorderThickness(w, h)
        ny2 == IF h - bt > bt THEN h - 2 * bt ELSE 0
        first  == [k \in 1..(2 * bt * w) |->
                     LET j == (k - 1) \div 2
                         y == j \div w
                         x == j % w
                     IN  IF (k - 1) % 2 = 0 THEN y * w + x
                                            ELSE (h - 1 - y) * w + x]
        second == [k \in 1..(2 * bt * ny2) |->
                     LET j == (k - 1) \div 2
                         x == j \div ny2
                         y == bt + (j % ny2)
                     IN  IF (k - 1) % 2 = 0 THEN y * w + x
                                            ELSE y * w + (w - 1 - x)]
    IN  first \o second

\* variant of IsSeed without the gradient test
IsSeedAnyGradient(buf, m, grad, idx) == WithinTolerance(buf, idx, m)

\* the seed test of consider(): dist <= model.tolerance && grad <= 85
IsSeed(buf, m, grad, idx) ==
    WithinTolerance(buf, idx, m) /\ grad[idx] <= 85 * 1000

\* (a.dist + a.grad*0.2) - (b.dist + b.grad*0.2) < 0 for candidates a, b.
\* With a NaN model the difference is NaN, which sort() takes as 0.
\* 0.2*grad = grad1000/5000; both sides are scaled by the reduced denominator.
ScoreLess(buf, m, grad, a, b) ==
    IF m.nan THEN FALSE
    ELSE LET da   == rgbDistanceAt(buf, a, m)
             db   == rgbDistanceAt(buf, b, m)
             diff == grad[b] - grad[a]
             g    == Gcd(Abs(diff), 5000)
             n    == Abs(diff) \div g
             c    == 5000 \div g
         IN  IF diff >= 0 THEN SqrtLt(da * c * c, db * c * c, n)
                          ELSE ~ SqrtLeq(db * c * c, da * c * c, n)

\* variant of StableSort leaving the candidates in call order
Unsorted(cands, buf, m, grad) == cands

\* candidates.sort(compare): a stable sort; the element at position i moves
\* behind every element that compares less and every earlier equal one
StableSort(cands, buf, m, grad) ==
    LET n == Len(cands)
        Rank(i) == Cardinality({j \in 1..n : ScoreLess(buf, m, grad, cands[j], cands[i])})
                 + Cardinality({j \in 1..(i - 1) :
                        /\ ~ ScoreLess(buf, m, grad, cands[j], cands[i])
                        /\ ~ ScoreLess(buf, m, grad, cands[i], cands[j])})
                 + 1
    IN  [k \in 1..n |-> cands[CHOOSE i \in 1..n : Rank(i) = k]]

\* variant of FallbackCount taking no candidate
FallbackNone(w, h) == 0

FallbackCount(w, h) == Max(40, RoundDiv(3 * Min(w, h), 10))

collectBorderSeeds(buf, w, h, m, grad) ==
    LET candidates == BorderCandidates(w, h)
        found      == SelectSeq(candidates, LAMBDA idx : IsSeed(buf, m, grad, idx))
    IN  IF Len(found) > 0 THEN found
        ELSE SubSeq(StableSort(candidates, buf, m, grad), 1,
                    Min(FallbackCount(w, h), Len(candidates)))

----------------------------------------------------------------------------
(* growBackgroundRegion *)

\* distBg <= model.expansionTolerance + Math.min(28, grad * 0.12).
\* Scaled by 20: sqrt(400*distBg^2) <= sqrt(expSq400) + min(560, 3*grad1000/1250),
\* then by the reduced denominator c of the last term.
WithinDynamicThreshold(buf, m, grad, nIdx) ==
    (~ m.nan) /\
    LET d2  == rgbDistanceAt(buf, nIdx, m)
        num == Min(560 * 1250, 3 * grad[nIdx])
        g   == Gcd(num, 1250)
        n   == num \div g
        c   == 1250 \div g
    IN  SqrtLeq(400 * d2 * c * c, m.expSq400 * c * c, n)

\* distBg <= model.tolerance * 0.95   (0.95^2 = 361/400)
WithinStrictTolerance(buf, m, nIdx) ==
    (~ m.nan) /\ 6400 * rgbDistanceAt(buf, nIdx, m) <= 361 * m.tolSq16

\* variant of shouldExpand without the test against the background model
shouldExpandAnyColour(buf, m, grad, nIdx, pIdx) ==
    /\ ~ m.nan
    /\ rgbDistanceBetweenIndices(buf, nIdx, pIdx) <= 74 * 74
    /\ (grad[nIdx] <= 125 * 1000 \/ WithinStrictTolerance(buf, m, nIdx))

\* variant of shouldExpand without the test against the parent pixel
shouldExpandAnyParent(buf, m, grad, nIdx, pIdx) ==
    /\ WithinDynamicThreshold(buf, m, grad, nIdx)
    /\ (grad[nIdx] <= 125 * 1000 \/ WithinStrictTolerance(buf, m, nIdx))

\* shouldExpand of tryPush(nIdx, pIdx)
shouldExpand(buf, m, grad, nIdx, pIdx) ==
    /\ WithinDynamicThreshold(buf, m, grad, nIdx)
    /\ rgbDistanceBetweenIndices(buf, nIdx, pIdx) <= 74 * 74
    /\ (grad[nIdx] <= 125 * 1000 \/ WithinStrictTolerance(buf, m, nIdx))

\* variant of EnqueueSeeds without the visited[seed] test
RECURSIVE EnqueueSeedsUnmarked(_, _, _)
EnqueueSeedsUnmarked(st, seedSeq, i) ==
    IF i > Len(seedSeq) THEN st
    ELSE EnqueueSeedsUnmarked([visited |-> [st.visited EXCEPT ![seedSeq[i]] = 1],
                               queue   |-> Append(st.queue, seedSeq[i])],
                              seedSeq, i + 1)

\* the seed loop: a seed is marked and queued unless already visited
RECURSIVE EnqueueSeeds(_, _, _)
EnqueueSeeds(st, seedSeq, i) ==
    IF i > Len(seedSeq) THEN st
    ELSE LET seed == seedSeq[i]
         IN  IF st.visited[seed] = 1 THEN EnqueueSeeds(st, seedSeq, i + 1)
             ELSE EnqueueSeeds([visited |-> [st.visited EXCEPT ![seed] = 1],
                                queue   |-> Append(st.queue, seed)],
                               seedSeq, i + 1)

\* tryPush(nIdx, pIdx) on the state [visited, queue]; `applies` is the
\* bounds test guarding the call (x > 0, x < width - 1, ...)
tryPush(st, buf, m, grad, applies, nIdx, pIdx) ==
    IF ~ applies THEN st
    ELSE IF st.visited[nIdx] = 1 THEN st
    ELSE IF ~ shouldExpand(buf, m, grad, nIdx, pIdx) THEN st
    ELSE [visited |-> [st.visited EXCEPT ![nIdx] = 1],
          queue   |-> Append(st.queue, nIdx)]

\* while (head < tail): head is 1-based here, tail is Len(queue)
RECURSIVE GrowLoop(_, _, _, _, _, _, _)
GrowLoop(st, head, buf, w, h, m, grad) ==
    IF head > Len(st.queue) THEN st
    ELSE LET idx == st.queue[head]
             x   == idx % w
             y   == idx \div w
             s1  == tryPush(st, buf, m, grad, x > 0, idx - 1, idx)
             s2  == tryPush(s1, buf, m, grad, x < w - 1, idx + 1, idx)
             s3  == tryPush(s2, buf, m, grad, y > 0, idx - w, idx)
             s4  == tryPush(s3, buf, m, grad, y < h - 1, idx + w, idx)
         IN  GrowLoop(s4, head + 1, buf, w, h, m, grad)

\* the whole run: final visited array and everything ever queued
GrowRun(buf, w, h, m, grad, seedSeq) ==
    GrowLoop(EnqueueSeeds([visited |-> [i \in 0..(w * h - 1) |-> 0], queue |-> <<>>],
                          seedSeq, 1),
             1, buf, w, h, m, grad)

growBackgroundRegion(buf, w, h, m, grad, seedSeq) ==
    GrowRun(buf, w, h, m, grad, seedSeq).visited

invertBinaryMask(mask) == [i \in DOMAIN mask |-> IF mask[i] # 0 THEN 0 ELSE 1]

----------------------------------------------------------------------------
(* keepMainForegroundRegions *)

\* variant of InCenter with the unrounded limits 0.25 * size and 0.75 * size
InCenterExact(idx, w, h) ==
    LET x == idx % w
        y == idx \div w
    IN  /\ 4 * x >= w /\ 4 * x <= 3 * w
        /\ 4 * y >= h /\ 4 * y <= 3 * h

\* x >= centerMinX && x <= centerMaxX && y >= centerMinY && y <= centerMaxY
\* with centerMin = Math.floor(size * 0.25), centerMax = Math.ceil(size * 0.75)
InCenter(idx, w, h) ==
    LET x == idx % w
        y == idx \div w
    IN  /\ x >= FloorDiv(w, 4) /\ x <= CeilDiv(3 * w, 4)
        /\ y >= FloorDiv(h, 4) /\ y <= CeilDiv(3 * h, 4)

\* tryLabel(nIdx) on the state [labels, queue]
tryLabel(st, mask, applies, nIdx, componentId) ==
    IF ~ applies THEN st
    ELSE IF mask[nIdx] = 0 \/ st.labels[nIdx] # 0 THEN st
    ELSE [st EXCEPT !.labels[nIdx] = componentId,
                    !.queue = Append(st.queue, nIdx)]

\* the inner while (head < tail) of one component; st is
\* [labels, queue, area, touchesCenter]
RECURSIVE LabelLoop(_, _, _, _, _, _)
LabelLoop(st, head, mask, w, h, componentId) ==
    IF head > Len(st.queue) THEN st
    ELSE LET idx == st.queue[head]
             x   == idx % w
             y   == idx \div w
             s0  == [st EXCEPT !.area = st.area + 1,
                               !.touchesCenter = st.touchesCenter \/ InCenter(idx, w, h)]
             s1  == tryLabel(s0, mask, x > 0, idx - 1, componentId)
             s2  == tryLabel(s1, mask, x < w - 1, idx + 1, componentId)
             s3  == tryLabel(s2, mask, y > 0, idx - w, componentId)
             s4  == tryLabel(s3, mask, y < h - 1, idx + w, componentId)
         IN  LabelLoop(s4, head + 1, mask, w, h, componentId)

\* the labelling loop over i; acc is [labels, componentAreas,
\* componentTouchesCenter] (sequences indexed by component id)
RECURSIVE LabelComponents(_, _, _, _, _)
LabelComponents(acc, i, mask, w, h) ==
    IF i >= w * h THEN acc
    ELSE IF mask[i] = 0 \/ acc.labels[i] # 0 THEN LabelComponents(acc, i + 1, mask, w, h)
    ELSE LET componentId == Len(acc.componentAreas) + 1
             done == LabelLoop([labels |-> [acc.labels EXCEPT ![i] = componentId],
                                queue |-> <<i>>, area |-> 0, touchesCenter |-> FALSE],
                               1, mask, w, h, componentId)
         IN  LabelComponents(
                 [labels |-> done.labels,
                  componentAreas |-> Append(acc.componentAreas, done.area),
                  componentTouchesCenter |->
                      Append(acc.componentTouchesCenter, done.touchesCenter)],
                 i + 1, mask, w, h)

Labelling(mask, w, h) ==
    LabelComponents([labels |-> [i \in 0..(w * h - 1) |-> 0],
                     componentAreas |-> <<>>, componentTouchesCenter |-> <<>>],
                    0, mask, w, h)

\* five times the score area + (touchesCenter ? total * 0.2 : 0)
ComponentScore(lab, id, total) ==
    5 * lab.componentAreas[id] + (IF lab.componentTouchesCenter[id] THEN total ELSE 0)

\* bestId of the selection loop: the first component whose score is not
\* exceeded (the test is score > bestScore)
BestComponent(lab, total) ==
    CHOOSE id \in 1..Len(lab.componentAreas) :
        /\ \A o \in 1..Len(lab.componentAreas) :
               ComponentScore(lab, o, total) <= ComponentScore(lab, id, total)
        /\ \A o \in 1..(id - 1) :
               ComponentScore(lab, o, total) < ComponentScore(lab, id, total)

\* variant of KeepComponent that keeps every component
KeepAllComponents(lab, id, total) == id \in 1..Len(lab.componentAreas)

\* variant of KeepComponent comparing the area with the unrounded bestArea * 0.12
KeepComponentUnrounded(lab, id, total) ==
    LET bestId   == BestComponent(lab, total)
        minArea  == Max(120, RoundDiv(9 * total, 5000))
        bestArea == lab.componentAreas[bestId]
    IN  \/ id = bestId
        \/ /\ lab.componentTouchesCenter[id]
           /\ lab.componentAreas[id] >= minArea
           /\ 25 * lab.componentAreas[id] >= 3 * bestArea

\* keep[id] after both loops
KeepComponent(lab, id, total) ==
    LET bestId   == BestComponent(lab, total)
        minArea  == Max(120, RoundDiv(9 * total, 5000))
        bestArea == lab.componentAreas[bestId]
    IN  \/ id = bestId
        \/ /\ lab.componentTouchesCenter[id]
           /\ lab.componentAreas[id] >= Max(minArea, RoundDiv(3 * bestArea, 25))

keepMainForegroundRegions(mask, w, h) ==
    LET lab == Labelling(mask, w, h)
    IN  IF Len(lab.componentAreas) <= 1 THEN mask
        ELSE [i \in 0..(w * h - 1) |->
                 IF lab.labels[i] > 0 /\ KeepComponent(lab, lab.labels[i], w * h)
                 THEN 1 ELSE 0]

----------------------------------------------------------------------------
(* fillMaskHoles *)

\* variant of enqueueIfBackground without the mask[idx] === 1 test
enqueueAnyPixel(st, mask, applies, idx) ==
    IF ~ applies THEN st
    ELSE IF st.visited[idx] = 1 THEN st
    ELSE [visited |-> [st.visited EXCEPT ![idx] = 1],
          queue   |-> Append(st.queue, idx)]

\* enqueueIfBackground(idx) on the state [visited, queue]
enqueueIfBackground(st, mask, applies, idx) ==
    IF ~ applies THEN st
    ELSE IF st.visited[idx] = 1 \/ mask[idx] = 1 THEN st
    ELSE [visited |-> [st.visited EXCEPT ![idx] = 1],
          queue   |-> Append(st.queue, idx)]

\* for (x ...) { enqueueIfBackground(x); enqueueIfBackground((height-1)*width + x) }
RECURSIVE FillSeedRows(_, _, _, _, _)
FillSeedRows(st, x, mask, w, h) ==
    IF x >= w THEN st
    ELSE FillSeedRows(
             enqueueIfBackground(enqueueIfBackground(st, mask, TRUE, x),
                                 mask, TRUE, (h - 1) * w + x),
             x + 1, mask, w, h)

\* for (y ...) { enqueueIfBackground(y*width); enqueueIfBackground(y*width + width-1) }
RECURSIVE FillSeedColumns(_, _, _, _, _)
FillSeedColumns(st, y, mask, w, h) ==
    IF y >= h THEN st
    ELSE FillSeedColumns(
             enqueueIfBackground(enqueueIfBackground(st, mask, TRUE, y * w),
                                 mask, TRUE, y * w + (w - 1)),
             y + 1, mask, w, h)

RECURSIVE FillLoop(_, _, _, _, _)
FillLoop(st, head, mask, w, h) ==
    IF head > Len(st.queue) THEN st
    ELSE LET idx == st.queue[head]
             x   == idx % w
             y   == idx \div w
             s1  == enqueueIfBackground(st, mask, x > 0, idx - 1)
             s2  == enqueueIfBackground(s1, mask, x < w - 1, idx + 1)
             s3  == enqueueIfBackground(s2, mask, y > 0, idx - w)
             s4  == enqueueIfBackground(s3, mask, y < h - 1, idx + w)
         IN  FillLoop(s4, head + 1, mask, w, h)

\* the whole flood fill: final visited array and everything ever queued
FillRun(mask, w, h) ==
    FillLoop(
        FillSeedColumns(
            FillSeedRows([visited |-> [i \in 0..(w * h - 1) |-> 0], queue |-> <<>>],
                         0, mask, w, h),
            0, mask, w, h),
        1, mask, w, h)

fillMaskHoles(mask, w, h) ==
    LET visited == FillRun(mask, w, h).visited
    IN  [i \in 0..(w * h - 1) |->
            IF mask[i] = 0 /\ visited[i] = 0 THEN 1 ELSE mask[i]]

----------------------------------------------------------------------------
(* dilateBinary, erodeBinary *)

\* the pixels of the (2*radius+1)-square window around idx that lie in the image
Window(idx, w, h, radius) ==
    LET x == idx % w
        y == idx \div w
    IN  {ny * w + nx : nx \in Max(0, x - radius)..Min(w - 1, x + radius),
                       ny \in Max(0, y - radius)..Min(h - 1, y + radius)}

\* variant of dilateBinary whose columns are not clamped: a window reaching
\* past the end of a row continues in the neighbouring row
dilateBinaryWrapped(mask, w, h, radius) ==
    [idx \in 0..(w * h - 1) |->
        IF \E ny \in Max(0, idx \div w - radius)..Min(h - 1, idx \div w + radius) :
              \E nx \in ((idx % w) - radius)..((idx % w) + radius) :
                  /\ ny * w + nx \in 0..(w * h - 1)
                  /\ mask[ny * w + nx] # 0
        THEN 1 ELSE 0]

dilateBinary(mask, w, h, radius) ==
    [idx \in 0..(w * h - 1) |->
        IF \E n \in Window(idx, w, h, radius) : mask[n] # 0 THEN 1 ELSE 0]

\* variant of erodeBinary that takes the pixels outside the image as background
erodeBinaryPadded(mask, w, h, radius) ==
    [idx \in 0..(w * h - 1) |->
        IF \/ \E n \in Window(idx, w, h, radius) : mask[n] = 0
           \/ Cardinality(Window(idx, w, h, radius)) < (2 * radius + 1) * (2 * radius + 1)
        THEN 0 ELSE 1]

erodeBinary(mask, w, h, radius) ==
    [idx \in 0..(w * h - 1) |->
        IF \E n \in Window(idx, w, h, radius) : mask[n] = 0 THEN 0 ELSE 1]

----------------------------------------------------------------------------
(* softenBinaryMask, boxBlur *)

\* a fraction in lowest terms
Frac(num, den) ==
    LET g == Gcd(Abs(num), den)
    IN  <<num \div g, den \div g>>

\* sum over the rows ys of the number of set pixels among the columns xs
RECURSIVE SumWindow(_, _, _, _)
SumWindow(mask, w, xs, ys) ==
    IF ys = {} THEN 0
    ELSE LET ny == CHOOSE r \in ys : TRUE
         IN  Cardinality({nx \in xs : mask[ny * w + nx] # 0})
               + SumWindow(mask, w, xs, ys \ {ny})

\* boxBlur: the horizontal pass stores sum/count over the in-image columns
\* of the window; the vertical pass averages those over the in-image rows.
\* The horizontal count depends on x only, so the vertical sum has the one
\* denominator countX * countY.
boxBlur(mask, w, h, radius) ==
    [idx \in 0..(w * h - 1) |->
        LET x  == idx % w
            y  == idx \div w
            xs == {nx \in (x - radius)..(x + radius) : nx >= 0 /\ nx < w}
            ys == {ny \in (y - radius)..(y + radius) : ny >= 0 /\ ny < h}
        IN  <<SumWindow(mask, w, xs, ys), Cardinality(xs) * Cardinality(ys)>>]

\* variant of Smoothstep without the clamp and the cubic: (v - 0.16) / 0.72
LinearRemap(v) == <<25 * v[1] - 4 * v[2], 18 * v[2]>>

\* normalized = clamp((v - 0.16) / 0.72, 0, 1); soft = normalized^2 * (3 - 2*normalized)
\* for v = num/den: (v - 0.16)/0.72 = (25*num - 4*den) / (18*den)
Smoothstep(v) ==
    LET num == 25 * v[1] - 4 * v[2]
        den == 18 * v[2]
        t   == IF num <= 0 THEN <<0, 1>>
               ELSE IF num >= den THEN <<1, 1>>
               ELSE Frac(num, den)
    IN  Frac(t[1] * t[1] * (3 * t[2] - 2 * t[1]), t[2] * t[2] * t[2])

softenBinaryMask(mask, w, h, radius) ==
    IF radius <= 0 THEN [i \in 0..(w * h - 1) |-> <<mask[i], 1>>]
    ELSE LET blurred == boxBlur(mask, w, h, radius)
         IN  [i \in 0..(w * h - 1) |-> Smoothstep(blurred[i])]

\* variant of BlurRadius one pixel wider
BlurRadiusWide(feather) == Max(1, feather + 2)

\* blurRadius = Math.max(1, this.featherAmount + 1)
BlurRadius(feather) == Max(1, feather + 1)

----------------------------------------------------------------------------
(* computeCropBoundsFromMask *)

\* variant of AboveAlphaThreshold with threshold 0
AboveZero(value) == value[1] > 0

\* value > alphaThreshold (0.08 = 2/25) for a fraction value
AboveAlphaThreshold(value) == ~ ProdLeq(25, value[1], 2, value[2])

\* the scan, pixel by pixel in row-major order; b is [top, bottom, left, right]
RECURSIVE CropScan(_, _, _, _)
CropScan(b, i, mask, w) ==
    IF i > Len(mask) THEN b
    ELSE LET x == (i - 1) % w
             y == (i - 1) \div w
         IN  IF ~ AboveAlphaThreshold(mask[i]) THEN CropScan(b, i + 1, mask, w)
             ELSE CropScan([top    |-> IF y < b.top THEN y ELSE b.top,
                            bottom |-> IF y > b.bottom THEN y ELSE b.bottom,
                            left   |-> IF x < b.left THEN x ELSE b.left,
                            right  |-> IF x > b.right THEN x ELSE b.right],
                           i + 1, mask, w)

\* null is the record with none = TRUE
NoBounds == [none |-> TRUE, top |-> 0, bottom |-> 0, left |-> 0, right |-> 0]

computeCropBoundsFromMask(mask, w, h) ==
    LET asSeq == [i \in 1..(w * h) |-> mask[i - 1]]
        b == CropScan([top |-> h, bottom |-> -1, left |-> w, right |-> -1], 1, asSeq, w)
    IN  IF b.bottom < b.top \/ b.right < b.left THEN NoBounds
        ELSE [none |-> FALSE, top |-> b.top, bottom |-> b.bottom,
              left |-> b.left, right |-> b.right]

----------------------------------------------------------------------------
(* Inputs *)

MaxWidth == 5

MaxHeight == 6

MaxFeather == 2

Black == Pixel(0, 0, 0, 255)

Grey == Pixel(100, 100, 100, 255)

Light == Pixel(120, 120, 120, 255)

White == Pixel(255, 255, 255, 255)

Clear == Pixel(200, 200, 200, 8)

Palette == {Black, Grey, Light, White, Clear}

\* background / subject colour pairs of the two-colour images
Scenes == {<<Grey, Light>>, <<Grey, White>>, <<Clear, White>>}

\* a w*h buffer filled with bg, with the rectangle [x0..x1] x [y0..y1] in fg
RectImage(w, h, bg, fg, x0, x1, y0, y1) ==
    [i \in 0..(w * h - 1) |->
        IF i % w >= x0 /\ i % w <= x1 /\ i \div w >= y0 /\ i \div w <= y1
        THEN fg ELSE bg]

UniformImage(w, h, c) == [i \in 0..(w * h - 1) |-> c]

\* the input images: every uniform image, and every image showing a
\* rectangular subject with background on all four sides
Images(w, h) ==
    {UniformImage(w, h, c) : c \in Palette}
    \cup {RectImage(w, h, sc[1], sc[2], x0, x1, y0, y1) :
            sc \in Scenes, x0 \in 1..(w - 2), x1 \in 1..(w - 2),
            y0 \in 1..(h - 2), y1 \in 1..(h - 2)}

\* the value of a variable the run has not assigned yet
None == "none"

\* the same for the mask variables: the mask with no pixel
NoMask == << >>

\* no removeBackground call under way
CallIdle ==
    [pc |-> "idle", n |-> 0, provider |-> "local", apiKey |-> "", progress |-> 0,
     imglyLoaded |-> FALSE, events |-> << >>, reported |-> << >>, downloads |-> 0]

\* bestResult = null
NoResult == [has |-> FALSE, size |-> 0, quality |-> 0, w |-> 0, h |-> 0]

\* no compress call under way
CompressorIdle ==
    [pc |-> "idle", imgW |-> 0, imgH |-> 0, w |-> 0, h |-> 0,
     minQuality |-> 0, maxQuality |-> 0, iterations |-> 0, scale |-> 0,
     quality |-> 0, best |-> NoResult, result |-> NoResult]

\* no component selection under way
SelectionIdle ==
    [pc |-> "idle", total |-> 0, componentAreas |-> << >>,
     componentTouchesCenter |-> << >>, keep |-> << >>]

\* backgroundColor = null
NoColor == [set |-> FALSE, r |-> 0, g |-> 0, b |-> 0]

\* no configuration given
OptionsIdle == [via |-> "none", featherAmount |-> 0, backgroundColor |-> NoColor]

\* the module loader before any call
ImglyIdle ==
    [promise |-> "null", fn |-> FALSE, import |-> "none", started |-> 0,
     failed |-> 0, waiting |-> 0, calls |-> 0, last |-> "none"]

\* the page after DOMContentLoaded: currentFile = null (file 0), no result
PageIdle ==
    [currentFile |-> 0, disabled |-> FALSE, settings |-> FALSE, comparison |-> FALSE,
     progressShown |-> FALSE, runs |-> << >>, started |-> 0, failed |-> 0,
     selections |-> 0, previews |-> << >>, info |-> [kind |-> "none", file |-> 0],
     result |-> [has |-> FALSE, originalFile |-> 0, blobOf |-> 0]]

RestIdle ==
    /\ morphRadius = 0
    /\ options = OptionsIdle
    /\ imgly = ImglyIdle
    /\ page = PageIdle

AuxIdle ==
    /\ call = CallIdle
    /\ compressor = CompressorIdle
    /\ selection = SelectionIdle
    /\ RestIdle

----------------------------------------------------------------------------
(* The segmentation pipeline: buildLocalForegroundMask, then the crop *)
(* bounds removeBackgroundHeuristic takes from its result.             *)

Init ==
    /\ pc = "start"
    /\ width \in 1..MaxWidth
    /\ height \in 1..MaxHeight
    /\ data \in Images(width, height)
    /\ featherAmount \in 0..MaxFeather
    /\ model = None
    /\ gradient = None
    /\ seeds = None
    /\ backgroundRegion = NoMask
    /\ maskIn = NoMask
    /\ foregroundMask = NoMask
    /\ matte = NoMask
    /\ cropBounds = None
    /\ AuxIdle

EstimateBackgroundModel ==
    /\ pc = "start"
    /\ model' = estimateBackgroundModel(data, width, height)
    /\ pc' = "model"
    /\ UNCHANGED <<width, height, data, featherAmount, gradient, seeds,
                   backgroundRegion, maskIn, foregroundMask, matte, cropBounds>>
    /\ UNCHANGED aux

ComputeGradientMap ==
    /\ pc = "model"
    /\ gradient' = computeGradientMap(data, width, height)
    /\ pc' = "gradient"
    /\ UNCHANGED <<width, height, data, featherAmount, model, seeds,
                   backgroundRegion, maskIn, foregroundMask, matte, cropBounds>>
    /\ UNCHANGED aux

CollectBorderSeeds ==
    /\ pc = "gradient"
    /\ seeds' = collectBorderSeeds(data, width, height, model, gradient)
    /\ pc' = "seeds"
    /\ UNCHANGED <<width, height, data, featherAmount, model, gradient,
                   backgroundRegion, maskIn, foregroundMask, matte, cropBounds>>
    /\ UNCHANGED aux

GrowBackgroundRegion ==
    /\ pc = "seeds"
    /\ backgroundRegion' = growBackgroundRegion(data, width, height, model, gradient, seeds)
    /\ pc' = "grown"
    /\ UNCHANGED <<width, height, data, featherAmount, model, gradient, seeds,
                   maskIn, foregroundMask, matte, cropBounds>>
    /\ UNCHANGED aux

InvertBinaryMask ==
    /\ pc = "grown"
    /\ foregroundMask' = invertBinaryMask(backgroundRegion)
    /\ pc' = "inverted"
    /\ UNCHANGED <<width, height, data, featherAmount, model, gradient, seeds,
                   backgroundRegion, maskIn, matte, cropBounds>>
    /\ UNCHANGED aux

\* one mask stage: pc moves from `from` to `to`, the mask is replaced by `result`
MaskStage(from, to, result) ==
    /\ pc = from
    /\ maskIn' = foregroundMask
    /\ foregroundMask' = result
    /\ pc' = to
    /\ UNCHANGED <<width, height, data, featherAmount, model, gradient, seeds,
                   backgroundRegion, matte, cropBounds>>
    /\ UNCHANGED aux

\* erode then dilate (line 324), dilate then erode (line 325)
Opened(mask, w, h) == dilateBinary(erodeBinary(mask, w, h, 1), w, h, 1)

Closed(mask, w, h) == erodeBinary(dilateBinary(mask, w, h, 1), w, h, 1)

KeepMainForegroundRegions ==
    MaskStage("inverted", "kept", keepMainForegroundRegions(foregroundMask, width, height))

FillMaskHoles ==
    MaskStage("kept", "filled", fillMaskHoles(foregroundMask, width, height))

ErodeDilate ==
    MaskStage("filled", "opened", Opened(foregroundMask, width, height))

\* maskIn keeps the mask that entered the opening, so that after the closing
\* the state holds both ends of the morphology pair
DilateErode ==
    /\ pc = "opened"
    /\ foregroundMask' = Closed(foregroundMask, width, height)
    /\ pc' = "closed"
    /\ UNCHANGED <<width, height, data, featherAmount, model, gradient, seeds,
                   backgroundRegion, maskIn, matte, cropBounds>>
    /\ UNCHANGED aux

SoftenStage(from) ==
    /\ pc = from
    /\ maskIn' = foregroundMask
    /\ matte' = softenBinaryMask(foregroundMask, width, height, BlurRadius(featherAmount))
    /\ pc' = "softened"
    /\ UNCHANGED <<width, height, data, featherAmount, model, gradient, seeds,
                   backgroundRegion, foregroundMask, cropBounds>>
    /\ UNCHANGED aux

SoftenBinaryMask == SoftenStage("closed")

ComputeCropBounds ==
    /\ pc = "softened"
    /\ cropBounds' = computeCropBoundsFromMask(matte, width, height)
    /\ pc' = "cropped"
    /\ UNCHANGED <<width, height, data, featherAmount, model, gradient, seeds,
                   backgroundRegion, maskIn, foregroundMask, matte>>
    /\ UNCHANGED aux

Next ==
    \/ EstimateBackgroundModel
    \/ ComputeGradientMap
    \/ CollectBorderSeeds
    \/ GrowBackgroundRegion
    \/ InvertBinaryMask
    \/ KeepMainForegroundRegions
    \/ FillMaskHoles
    \/ ErodeDilate
    \/ DilateErode
    \/ SoftenBinaryMask
    \/ ComputeCropBounds

Spec == Init /\ [][Next]_vars

----------------------------------------------------------------------------
(* growBackgroundRegion on its own: any image, a model and border seeds *)

MaxCells == 9

\* models estimateBackgroundModel returns: for a uniform grey border, for a
\* uniform white border, for a border without opaque samples, and the NaN one
GrowModels ==
    {estimateBackgroundModel(UniformImage(1, 6, c), 1, 6) : c \in {Grey, White, Clear}}
    \cup {NaNModel}

\* seed lists inside the band collectBorderSeeds scans: the whole band, or
\* one of its pixels
SeedChoices(w, h) ==
    {BorderCandidates(w, h)}
    \cup {<<BorderCandidates(w, h)[k]>> : k \in 1..Len(BorderCandidates(w, h))}

InitGrow ==
    /\ pc = "seeds"
    /\ width \in 1..MaxWidth
    /\ height \in 1..MaxHeight
    /\ data \in Images(width, height)
    /\ featherAmount = 0
    /\ model \in GrowModels
    /\ gradient = computeGradientMap(data, width, height)
    /\ seeds \in SeedChoices(width, height)
    /\ backgroundRegion = NoMask
    /\ maskIn = NoMask
    /\ foregroundMask = NoMask
    /\ matte = NoMask
    /\ cropBounds = None
    /\ AuxIdle

NextGrow ==
    \/ GrowBackgroundRegion
    \/ InvertBinaryMask

SpecGrow == InitGrow /\ [][NextGrow]_vars

----------------------------------------------------------------------------
(* The mask stages on their own: any binary mask entering any stage, and *)
(* any matte entering computeCropBoundsFromMask                          *)

MaxMatteCells == 4

\* alpha / 255 for alpha 0, 20, 21 and 255: both sides of the 0.08 threshold
MatteValues == {Frac(0, 1), Frac(20, 255), Frac(21, 255), Frac(1, 1)}

InitMask ==
    /\ width \in 1..MaxWidth
    /\ height \in 1..MaxHeight
    /\ featherAmount \in 0..MaxFeather
    /\ data = None
    /\ model = None
    /\ gradient = None
    /\ seeds = None
    /\ backgroundRegion = NoMask
    /\ maskIn = NoMask
    /\ cropBounds = None
    /\ AuxIdle
    /\ \/ /\ width * height <= MaxCells
          /\ pc \in {"inverted", "kept", "filled", "closed"}
          /\ foregroundMask \in [0..(width * height - 1) -> {0, 1}]
          /\ matte = NoMask
       \/ /\ width * height <= MaxMatteCells
          /\ pc = "softened"
          /\ foregroundMask = NoMask
          /\ matte \in [0..(width * height - 1) -> MatteValues]

NextMask ==
    \/ KeepMainForegroundRegions
    \/ FillMaskHoles
    \/ ErodeDilate
    \/ DilateErode
    \/ SoftenBinaryMask
    \/ ComputeCropBounds

SpecMask == InitMask /\ [][NextMask]_vars

----------------------------------------------------------------------------
(* Properties of the whole pipeline (specification Spec) *)

\* every pixel has the same RGB colour and alpha >= 16
UniformOpaque ==
    /\ \A i \in DOMAIN data : data[i].a >= 16
    /\ \A i, j \in DOMAIN data :
           data[i].r = data[j].r /\ data[i].g = data[j].g /\ data[i].b = data[j].b

\* C1 (border invariant): for an image whose pixels all have the same RGB
\* colour and alpha >= 16, the matte buildLocalForegroundMask returns is 0 at
\* every pixel and computeCropBoundsFromMask on it returns null.
C1_BorderInvariant ==
    (pc \in {"softened", "cropped"} /\ UniformOpaque) =>
        /\ \A i \in DOMAIN matte : matte[i][1] = 0
        /\ (pc = "cropped" => cropBounds.none)

\* C9: the model estimateBackgroundModel returns has
\* 24 <= tolerance <= 110, 32 <= expansionTolerance <= 135 and
\* expansionTolerance >= tolerance (tolSq16 = 16 tolerance^2,
\* expSq400 = 400 expansionTolerance^2, so the last is expSq400 >= 25 tolSq16).
C9_ModelTolerances ==
    (pc # "start") =>
        /\ ~ model.nan
        /\ 16 * 24 * 24 <= model.tolSq16 /\ model.tolSq16 <= 16 * 110 * 110
        /\ 400 * 32 * 32 <= model.expSq400 /\ model.expSq400 <= 400 * 135 * 135
        /\ model.expSq400 >= 25 * model.tolSq16

\* C10: the matte buildLocalForegroundMask returns has exactly width*height
\* entries and each of them lies in [0, 1].
C10_MatteRange ==
    (pc \in {"softened", "cropped"}) =>
        /\ DOMAIN matte = 0..(width * height - 1)
        /\ \A i \in DOMAIN matte :
               /\ matte[i][2] > 0
               /\ 0 <= matte[i][1]
               /\ matte[i][1] <= matte[i][2]

\* a finished run whose matte holds a 0, a 1 and a value strictly between
C10_MatteRangeWitness ==
    /\ pc = "cropped"
    /\ \E i \in DOMAIN matte : matte[i][1] = 0
    /\ \E i \in DOMAIN matte : matte[i][1] = matte[i][2]
    /\ \E i \in DOMAIN matte : 0 < matte[i][1] /\ matte[i][1] < matte[i][2]

----------------------------------------------------------------------------
(* Properties of growBackgroundRegion (specification SpecGrow) *)

\* the pixels outside the border band collectBorderSeeds scans
Interior(w, h) ==
    {i \in 0..(w * h - 1) :
        /\ i % w >= BorderThickness(w, h)
        /\ i % w < w - BorderThickness(w, h)
        /\ i \div w >= BorderThickness(w, h)
        /\ i \div w < h - BorderThickness(w, h)}

SeedsInBand == \A k \in 1..Len(seeds) : seeds[k] \notin Interior(width, height)

\* distance to the model colour > model.expansionTolerance
BeyondExpansionTolerance(i) ==
    (~ model.nan) /\ 400 * rgbDistanceAt(data, i, model) > model.expSq400

\* distance to the model colour >
\* model.expansionTolerance + min(28, 0.12 * gradient[i])
BeyondDynamicThreshold(i) ==
    (~ model.nan) /\ ~ WithinDynamicThreshold(data, model, gradient, i)

\* C2 as stated (full-foreground invariant): if the seeds lie in the border
\* band and every interior pixel is farther from the model colour than
\* model.expansionTolerance, growBackgroundRegion marks no interior pixel, and
\* after inversion every interior pixel is foreground.
C2_FullForeground ==
    (/\ pc \in {"grown", "inverted"}
     /\ SeedsInBand
     /\ \A i \in Interior(width, height) : BeyondExpansionTolerance(i)) =>
        \A i \in Interior(width, height) :
            /\ backgroundRegion[i] = 0
            /\ (pc = "inverted" => foregroundMask[i] = 1)

\* C2 amended: the same with every interior pixel farther from the model
\* colour than model.expansionTolerance + min(28, 0.12 * gradient(pixel)),
\* the threshold tryPush compares against.
C2_FullForegroundDynamic ==
    (/\ pc \in {"grown", "inverted"}
     /\ SeedsInBand
     /\ \A i \in Interior(width, height) : BeyondDynamicThreshold(i)) =>
        \A i \in Interior(width, height) :
            /\ backgroundRegion[i] = 0
            /\ (pc = "inverted" => foregroundMask[i] = 1)

\* the grow has spread from its seeds along the band and stopped at a
\* non-empty interior lying beyond the dynamic threshold
C2_FullForegroundWitness ==
    /\ pc = "inverted"
    /\ SeedsInBand
    /\ Interior(width, height) # {}
    /\ \A i \in Interior(width, height) : BeyondDynamicThreshold(i)
    /\ \E i \in DOMAIN backgroundRegion :
           backgroundRegion[i] = 1 /\ \A k \in 1..Len(seeds) : seeds[k] # i
    /\ \A i \in Interior(width, height) : foregroundMask[i] = 1

----------------------------------------------------------------------------
(* Properties of the mask stages (specification SpecMask) *)

\* pixels i and j are 4-neighbours in an image of width w
Adjacent(i, j, w) ==
    \/ Abs(i - j) = w
    \/ Abs(i - j) = 1 /\ i \div w = j \div w

\* the pixels of `allowed` joined to `set` by a 4-connected path in `allowed`
RECURSIVE Flood(_, _, _)
Flood(set, allowed, w) ==
    LET next == set \cup {j \in allowed : \E i \in set : Adjacent(i, j, w)}
    IN  IF next = set THEN set ELSE Flood(next, allowed, w)

ForegroundOf(mask) == {i \in DOMAIN mask : mask[i] = 1}

BackgroundOf(mask) == {i \in DOMAIN mask : mask[i] = 0}

\* the 4-connected components of the foreground
Components(mask, w) ==
    {Flood({p}, ForegroundOf(mask), w) : p \in ForegroundOf(mask)}

TouchesCenter(comp, w, h) == \E i \in comp : InCenter(i, w, h)

\* five times area + (touchesCenter ? 0.2 * total : 0)
Score(comp, w, h) ==
    5 * Cardinality(comp) + (IF TouchesCenter(comp, w, h) THEN w * h ELSE 0)

\* C3 (component retention): for a mask with two or more 4-connected
\* components keepMainForegroundRegions drops every component that does not
\* touch the centre region and is not best-scoring; with one blob touching the
\* centre and one smaller blob not touching it, the output is exactly the
\* larger blob.
C3_ComponentRetention ==
    (/\ pc = "kept"
     /\ DOMAIN maskIn # {}
     /\ Cardinality(Components(maskIn, width)) >= 2) =>
        /\ \A comp \in Components(maskIn, width) :
               (/\ ~ TouchesCenter(comp, width, height)
                /\ \E other \in Components(maskIn, width) :
                       Score(other, width, height) > Score(comp, width, height))
               => \A i \in comp : foregroundMask[i] = 0
        /\ \A large, small \in Components(maskIn, width) :
               (/\ Components(maskIn, width) = {large, small}
                /\ TouchesCenter(large, width, height)
                /\ ~ TouchesCenter(small, width, height)
                /\ Cardinality(large) > Cardinality(small))
               => ForegroundOf(foregroundMask) = large

\* a blob touching the centre was kept and a smaller one away from it dropped
C3_ComponentRetentionWitness ==
    /\ pc = "kept"
    /\ DOMAIN maskIn # {}
    /\ \E large, small \in Components(maskIn, width) :
           /\ Components(maskIn, width) = {large, small}
           /\ TouchesCenter(large, width, height)
           /\ ~ TouchesCenter(small, width, height)
           /\ Cardinality(large) > Cardinality(small)
           /\ ForegroundOf(foregroundMask) = large

OnBorder(i, w, h) ==
    i % w = 0 \/ i % w = w - 1 \/ i \div w = 0 \/ i \div w = h - 1

\* the input-0 pixels joined to the image border by a 4-connected path of
\* input-0 pixels
Outside(mask, w, h) ==
    Flood({i \in BackgroundOf(mask) : OnBorder(i, w, h)}, BackgroundOf(mask), w)

\* C4 (hole closing): in the output of fillMaskHoles every 0 pixel is joined
\* to the image border by a 4-connected path of pixels that were 0 in the
\* input, and every input-0 pixel without such a path is 1.
C4_HoleClosing ==
    (pc = "filled" /\ DOMAIN maskIn # {}) =>
        /\ DOMAIN foregroundMask = DOMAIN maskIn
        /\ \A i \in DOMAIN foregroundMask :
               foregroundMask[i] = 0 => i \in Outside(maskIn, width, height)
        /\ \A i \in BackgroundOf(maskIn) :
               i \notin Outside(maskIn, width, height) => foregroundMask[i] = 1

\* an enclosed background pixel was filled while an outer one stayed 0
C4_HoleClosingWitness ==
    /\ pc = "filled"
    /\ DOMAIN maskIn # {}
    /\ \E i \in BackgroundOf(maskIn) : foregroundMask[i] = 1
    /\ \E i \in BackgroundOf(maskIn) : foregroundMask[i] = 0

\* value > 0.08, for the matte fraction at pixel i
Qualifies(i) == 25 * matte[i][1] > 2 * matte[i][2]

QualifyingRows == {i \div width : i \in {j \in DOMAIN matte : Qualifies(j)}}

QualifyingColumns == {i % width : i \in {j \in DOMAIN matte : Qualifies(j)}}

\* C5 (crop bounds): computeCropBoundsFromMask returns null iff no pixel has
\* value > 0.08; otherwise top/bottom are the least and greatest row and
\* left/right the least and greatest column over exactly the pixels with
\* value > 0.08, so top <= bottom and left <= right.
C5_CropBounds ==
    (pc = "cropped") =>
        /\ cropBounds.none <=> (\A i \in DOMAIN matte : ~ Qualifies(i))
        /\ (~ cropBounds.none) =>
               /\ cropBounds.top \in QualifyingRows
               /\ cropBounds.bottom \in QualifyingRows
               /\ cropBounds.left \in QualifyingColumns
               /\ cropBounds.right \in QualifyingColumns
               /\ \A y \in QualifyingRows : cropBounds.top <= y /\ y <= cropBounds.bottom
               /\ \A x \in QualifyingColumns : cropBounds.left <= x /\ x <= cropBounds.right
               /\ cropBounds.top <= cropBounds.bottom
               /\ cropBounds.left <= cropBounds.right

\* a box was returned that leaves out a pixel with a non-zero value <= 0.08
C5_CropBoundsWitness ==
    /\ pc = "cropped"
    /\ ~ cropBounds.none
    /\ cropBounds.top < cropBounds.bottom
    /\ \E i \in DOMAIN matte :
           /\ matte[i][1] > 0
           /\ ~ Qualifies(i)
           /\ \/ i % width < cropBounds.left \/ i % width > cropBounds.right
              \/ i \div width < cropBounds.top \/ i \div width > cropBounds.bottom

\* no isolated foreground pixel and no single-pixel background hole: every
\* pixel has a 4-neighbour of its own value
Clean(mask, w, h) ==
    \A i \in DOMAIN mask : \E j \in DOMAIN mask : Adjacent(i, j, w) /\ mask[j] = mask[i]

\* C6 as stated: for a mask with no isolated foreground pixel and no
\* single-pixel hole, erode-dilate followed by dilate-erode returns the mask.
C6_CleanMaskUnchanged ==
    (pc = "closed" /\ DOMAIN maskIn # {} /\ Clean(maskIn, width, height)) =>
        foregroundMask = maskIn

\* C6 amended (idempotence of the morphology pair): for every mask, applying
\* erode-dilate followed by dilate-erode to the result of that same pair
\* returns the result unchanged.
C6_PairIdempotent ==
    (pc = "closed" /\ DOMAIN maskIn # {}) =>
        Closed(Opened(foregroundMask, width, height), width, height) = foregroundMask

\* the pair changed its input and left a mask that is neither empty nor full
C6_PairIdempotentWitness ==
    /\ pc = "closed"
    /\ DOMAIN maskIn # {}
    /\ foregroundMask # maskIn
    /\ ForegroundOf(foregroundMask) # {}
    /\ BackgroundOf(foregroundMask) # {}

\* the pixels with a non-zero matte value
Support(m) == {i \in DOMAIN m : m[i][1] > 0}

\* the pixels within Chebyshev distance r of a foreground pixel of mask
NearForeground(mask, w, r) ==
    {i \in DOMAIN mask :
        \E j \in ForegroundOf(mask) :
            Abs((i % w) - (j % w)) <= r /\ Abs((i \div w) - (j \div w)) <= r}

\* C7 as stated (feather monotonicity): for feather amounts f1 <= f2 the
\* non-zero support of the matte softened with f1 is a subset of the non-zero
\* support of the matte softened with f2.
C7_FeatherMonotone ==
    (pc = "softened" /\ DOMAIN maskIn # {}) =>
        \A f2 \in featherAmount..MaxFeather :
            Support(matte) \subseteq
                Support(softenBinaryMask(maskIn, width, height, Max(1, f2 + 1)))

\* C7 amended: for feather amounts f1 <= f2 the non-zero support of the matte
\* softened with f1 lies within the pixels at Chebyshev distance at most
\* f2 + 1 of a foreground pixel (the non-zero support of the mask blurred
\* with f2, before the smoothstep remap).
C7_FeatherSupportBound ==
    (pc = "softened" /\ DOMAIN maskIn # {}) =>
        \A f2 \in featherAmount..MaxFeather :
            Support(matte) \subseteq NearForeground(maskIn, width, f2 + 1)

\* the matte is non-zero on some pixel outside the foreground, zero on some
\* other pixel, and a larger feather amount exists to compare with
C7_FeatherSupportWitness ==
    /\ pc = "softened"
    /\ DOMAIN maskIn # {}
    /\ featherAmount < MaxFeather
    /\ Support(matte) \ ForegroundOf(maskIn) # {}
    /\ Support(matte) # DOMAIN matte

----------------------------------------------------------------------------
(* collectBorderSeeds on its own, followed by growBackgroundRegion: any *)
(* image with any model, and one-row strips whose border band has more  *)
(* candidates than the fallback takes                                   *)

MaxStrip == 21

MaxSeedCells == 20

Bright == Pixel(220, 220, 220, 255)

\* one-row images of width w in two colours away from the grey model colour
Strips(w) ==
    {RectImage(w, 1, White, Bright, x0, x1, 0, 0) : x0 \in {0, 3, w - 1}, x1 \in {2, w - 2, w - 1}}

InitSeeds ==
    /\ pc = "gradient"
    /\ \/ /\ width \in 1..MaxWidth
          /\ height \in 1..MaxHeight
          /\ width * height <= MaxSeedCells
          /\ data \in Images(width, height)
          /\ model \in GrowModels \cup {estimateBackgroundModel(data, width, height)}
       \/ /\ width = MaxStrip
          /\ height = 1
          /\ data \in Strips(width)
          /\ model \in GrowModels
    /\ featherAmount = 0
    /\ gradient = computeGradientMap(data, width, height)
    /\ seeds = None
    /\ backgroundRegion = NoMask
    /\ maskIn = NoMask
    /\ foregroundMask = NoMask
    /\ matte = NoMask
    /\ cropBounds = None
    /\ AuxIdle

NextSeeds ==
    \/ CollectBorderSeeds
    \/ GrowBackgroundRegion

SpecSeeds == InitSeeds /\ [][NextSeeds]_vars

----------------------------------------------------------------------------
(* Properties of collectBorderSeeds (specification SpecSeeds) *)

\* the pixels of the border band: column or row within borderThickness of an edge
Band(w, h) == (0..(w * h - 1)) \ Interior(w, h)

\* the band pixels passing the seed rule: dist <= tolerance and grad <= 85
RuleSeeds ==
    {i \in Band(width, height) :
        WithinTolerance(data, i, model) /\ gradient[i] <= 85 * 1000}

SeedSet == {seeds[k] : k \in 1..Len(seeds)}

\* C11 (seed list non-empty): collectBorderSeeds returns at least one seed,
\* every seed is a valid pixel index of the border band, and the region
\* growBackgroundRegion returns from them has at least one pixel.
C11_SeedsNonEmpty ==
    /\ pc \in {"seeds", "grown"} =>
          /\ Len(seeds) >= 1
          /\ SeedSet \subseteq Band(width, height)
    /\ pc = "grown" => \E i \in DOMAIN backgroundRegion : backgroundRegion[i] = 1

\* the NaN model, for which no pixel passes the seed rule, has been through
\* both steps
C11_SeedsNonEmptyWitness ==
    /\ pc = "grown"
    /\ model.nan
    /\ width > 1
    /\ \E i \in DOMAIN backgroundRegion : backgroundRegion[i] = 1

\* C17 (seed rule): when at least one band pixel has dist <= tolerance and
\* grad <= 85, the seed set is exactly the set of those band pixels.
C17_SeedRule ==
    (pc = "seeds" /\ RuleSeeds # {}) => SeedSet = RuleSeeds

\* some band pixels pass the rule, and a band pixel within tolerance fails it
\* on its gradient
C17_SeedRuleWitness ==
    /\ pc = "seeds"
    /\ RuleSeeds # {}
    /\ SeedSet = RuleSeeds
    /\ \E i \in Band(width, height) \ RuleSeeds : WithinTolerance(data, i, model)

\* the score dist + 0.2 * grad of pixel a is strictly lower than that of b
LowerScore(a, b) == ScoreLess(data, model, gradient, a, b)

\* C18 (seed fallback): when no band pixel passes the seed rule, the list
\* returned has N = max(40, round(0.3 * min(w, h))) entries, or as many as
\* there are candidates if fewer; they are candidates, and no candidate left
\* out has a strictly lower score dist + 0.2 * grad than one returned.
C18_SeedFallback ==
    (pc = "seeds" /\ RuleSeeds = {}) =>
        /\ Len(seeds) = Min(Max(40, RoundDiv(3 * Min(width, height), 10)),
                            Len(BorderCandidates(width, height)))
        /\ SeedSet \subseteq Band(width, height)
        /\ \A a \in Band(width, height) \ SeedSet :
               \A b \in SeedSet : ~ LowerScore(a, b)

\* the fallback has left out a candidate, whose score is higher than that of
\* a candidate returned
C18_SeedFallbackWitness ==
    /\ pc = "seeds"
    /\ RuleSeeds = {}
    /\ Len(seeds) = 40
    /\ \E a \in Band(width, height) \ SeedSet : \E b \in SeedSet : LowerScore(b, a)

----------------------------------------------------------------------------
(* growBackgroundRegion on mosaics: every image of at most MaxCells pixels *)
(* in two colours, with a model that separates the admission tests        *)

\* a colour farther than 74 from Grey
Mid == Pixel(150, 150, 150, 255)

\* the model of a grey border around a white subject: tolerance 110 and
\* expansionTolerance 135; Grey and Mid are within its expansion tolerance
WideModel == estimateBackgroundModel(RectImage(5, 6, Grey, White, 1, 3, 1, 4), 5, 6)

\* the model of a uniform grey border: tolerance 24 and expansionTolerance 32;
\* Light is within the dynamic threshold only where the gradient is high
GreyModel == estimateBackgroundModel(UniformImage(1, 6, Grey), 1, 6)

\* a model with the two colours of the mosaics grown under it
MosaicScenes == {<<WideModel, Grey, Mid>>, <<GreyModel, Grey, Light>>}

InitClosure ==
    /\ pc = "seeds"
    /\ width \in 1..MaxWidth
    /\ height \in 1..MaxHeight
    /\ width * height <= MaxCells
    /\ \E sc \in MosaicScenes :
          /\ model = sc[1]
          /\ data \in [0..(width * height - 1) -> {sc[2], sc[3]}]
    /\ featherAmount = 0
    /\ gradient = computeGradientMap(data, width, height)
    /\ seeds \in SeedChoices(width, height)
    /\ backgroundRegion = NoMask
    /\ maskIn = NoMask
    /\ foregroundMask = NoMask
    /\ matte = NoMask
    /\ cropBounds = None
    /\ AuxIdle

NextClosure == GrowBackgroundRegion

SpecClosure == InitClosure /\ [][NextClosure]_vars

----------------------------------------------------------------------------
(* Properties of growBackgroundRegion as a closure (specification *)
(* SpecClosure)                                                   *)

\* the admission of neighbour n from parent p
Admits(n, p) ==
    /\ WithinDynamicThreshold(data, model, gradient, n)
    /\ rgbDistanceBetweenIndices(data, n, p) <= 74 * 74
    /\ (gradient[n] <= 125 * 1000 \/ WithinStrictTolerance(data, model, n))

\* the least set holding `set` and every pixel admitted from a 4-neighbour in it
RECURSIVE GrowClosure(_)
GrowClosure(set) ==
    LET next == set \cup {n \in DOMAIN data :
                    \E q \in set : Adjacent(n, q, width) /\ Admits(n, q)}
    IN  IF next = set THEN set ELSE GrowClosure(next)

RegionSet == {i \in DOMAIN backgroundRegion : backgroundRegion[i] = 1}

ReversedSeeds == [k \in 1..Len(seeds) |-> seeds[Len(seeds) + 1 - k]]

\* C15 (region growing is a closure): a pixel is in the region returned iff
\* it is a seed or a 4-neighbour n of a region pixel p with
\* dist(n, model) <= expansionTolerance + min(28, 0.12 * grad(n)),
\* dist(n, p) <= 74 and (grad(n) <= 125 or dist(n, model) <= 0.95 * tolerance);
\* the region is the least such set, and the seeds taken in reverse order
\* give the same region.
C15_GrowClosure ==
    pc = "grown" =>
        /\ \A n \in DOMAIN data :
               n \in RegionSet <=>
                   \/ n \in SeedSet
                   \/ \E q \in RegionSet : Adjacent(n, q, width) /\ Admits(n, q)
        /\ RegionSet = GrowClosure(SeedSet)
        /\ growBackgroundRegion(data, width, height, model, gradient, ReversedSeeds)
               = backgroundRegion

\* a pixel that is no seed is in the region although one of its neighbours in
\* the region does not admit it
C15_GrowClosureWitness ==
    /\ pc = "grown"
    /\ \E n \in RegionSet \ SeedSet :
           \E q \in RegionSet : Adjacent(n, q, width) /\ ~ Admits(n, q)

----------------------------------------------------------------------------
(* Properties of the three breadth-first loops (specification Spec) *)

\* no index occurs twice in the sequence of queue writes
WrittenOnce(queue) == \A j, k \in 1..Len(queue) : queue[j] = queue[k] => j = k

\* C16 (mark on enqueue): in growBackgroundRegion and fillMaskHoles no pixel
\* index is written to the queue twice and the number of writes, which is the
\* number of dequeues, is at most width * height, also with duplicate seeds;
\* in keepMainForegroundRegions the dequeues of a component, counted by its
\* area, are as many as the pixels carrying its label.
C16_EnqueuedOnce ==
    /\ pc = "grown" =>
          LET run == GrowRun(data, width, height, model, gradient, seeds)
          IN  WrittenOnce(run.queue) /\ Len(run.queue) <= width * height
    /\ pc = "kept" =>
          LET lab == Labelling(maskIn, width, height)
          IN  \A id \in 1..Len(lab.componentAreas) :
                  /\ lab.componentAreas[id] =
                         Cardinality({i \in DOMAIN maskIn : lab.labels[i] = id})
                  /\ lab.componentAreas[id] <= width * height
    /\ pc = "filled" =>
          LET run == FillRun(maskIn, width, height)
          IN  WrittenOnce(run.queue) /\ Len(run.queue) <= width * height

\* the seed list held duplicates and the queue of growBackgroundRegion was
\* written up to its capacity
C16_EnqueuedOnceWitness ==
    /\ pc = "grown"
    /\ Len(seeds) > Cardinality({seeds[k] : k \in 1..Len(seeds)})
    /\ Len(GrowRun(data, width, height, model, gradient, seeds).queue) = width * height
    /\ width > 1

----------------------------------------------------------------------------
(* Properties of the labelling of keepMainForegroundRegions (specification *)
(* SpecMask)                                                               *)

\* the pixels labelled id by the labelling of the mask that entered the stage
LabelledPixels(id) ==
    {i \in DOMAIN maskIn : Labelling(maskIn, width, height).labels[i] = id}

RecordedTouching(id) == Labelling(maskIn, width, height).componentTouchesCenter[id]

ComponentIds == 1..Len(Labelling(maskIn, width, height).componentAreas)

\* 0.25 * w <= x <= 0.75 * w and 0.25 * h <= y <= 0.75 * h
InCentralHalf(i) ==
    /\ 4 * (i % width) >= width /\ 4 * (i % width) <= 3 * width
    /\ 4 * (i \div width) >= height /\ 4 * (i \div width) <= 3 * height

\* floor(0.25 * w) <= x <= ceil(0.75 * w) and the same for y and h
InRoundedCentre(i) ==
    /\ i % width >= width \div 4 /\ 4 * (i % width) <= 3 * width + 3
    /\ i \div width >= height \div 4 /\ 4 * (i \div width) <= 3 * height + 3

\* C20 as stated (centre test): a component is recorded as touching the
\* centre iff one of its pixels (x, y) has 0.25 * w <= x <= 0.75 * w and
\* 0.25 * h <= y <= 0.75 * h.
C20_CentreExact ==
    (pc = "kept" /\ DOMAIN maskIn # {}) =>
        \A id \in ComponentIds :
            RecordedTouching(id) <=> \E i \in LabelledPixels(id) : InCentralHalf(i)

\* C20 as amended: a component is recorded as touching the centre iff one of
\* its pixels (x, y) has floor(0.25 * w) <= x <= ceil(0.75 * w) and
\* floor(0.25 * h) <= y <= ceil(0.75 * h).
C20_CentreRounded ==
    (pc = "kept" /\ DOMAIN maskIn # {}) =>
        \A id \in ComponentIds :
            RecordedTouching(id) <=> \E i \in LabelledPixels(id) : InRoundedCentre(i)

\* one component is recorded as touching the centre through a pixel of the
\* rounded limits only, another as not touching it
C20_CentreRoundedWitness ==
    /\ pc = "kept"
    /\ DOMAIN maskIn # {}
    /\ \E id \in ComponentIds :
           /\ RecordedTouching(id)
           /\ \A i \in LabelledPixels(id) : ~ InCentralHalf(i)
    /\ \E id \in ComponentIds : ~ RecordedTouching(id)

----------------------------------------------------------------------------
(* The component selection of keepMainForegroundRegions: on small masks  *)
(* through the whole function, and on the component statistics of large  *)
(* images from the end of the labelling loop                             *)

MaxComponents == 3

\* width * height of a 200 x 200 and of a 300 x 300 image: minArea is 120
\* for the first and 162 for the second
Totals == {200 * 200, 300 * 300}

\* component areas on both sides of minArea and of 0.12 * bestArea
ComponentSizes == {100, 120, 121, 162, 1000, 1003, 1354}

\* the pipeline variables of a state outside the pipeline
PipelineIdle ==
    /\ pc = "idle"
    /\ width = 0
    /\ height = 0
    /\ data = None
    /\ featherAmount = 0
    /\ model = None
    /\ gradient = None
    /\ seeds = None
    /\ backgroundRegion = NoMask
    /\ maskIn = NoMask
    /\ foregroundMask = NoMask
    /\ matte = NoMask
    /\ cropBounds = None

pipelineVars == <<pc, width, height, data, featherAmount, model, gradient, seeds,
                  backgroundRegion, maskIn, foregroundMask, matte, cropBounds>>

InitSelect ==
    /\ call = CallIdle
    /\ compressor = CompressorIdle
    /\ RestIdle
    /\ \/ /\ pc = "inverted"
          /\ width \in 1..MaxWidth
          /\ height \in 1..MaxHeight
          /\ width * height <= MaxCells
          /\ foregroundMask \in [0..(width * height - 1) -> {0, 1}]
          /\ data = None
          /\ featherAmount = 0
          /\ model = None
          /\ gradient = None
          /\ seeds = None
          /\ backgroundRegion = NoMask
          /\ maskIn = NoMask
          /\ matte = NoMask
          /\ cropBounds = None
          /\ selection = SelectionIdle
       \/ /\ PipelineIdle
          /\ \E n \in 2..MaxComponents :
                \E areas \in [1..n -> ComponentSizes], touches \in [1..n -> BOOLEAN] :
                    \E total \in Totals :
                        /\ SumSeq(areas) + n <= total
                        /\ selection = [pc |-> "labelled", total |-> total,
                                        componentAreas |-> areas,
                                        componentTouchesCenter |-> touches,
                                        keep |-> << >>]

\* lines 610-636: bestId, then keep[id] for every component
SelectComponents ==
    /\ selection.pc = "labelled"
    /\ selection' =
           [selection EXCEPT
               !.pc = "selected",
               !.keep = [id \in 1..Len(selection.componentAreas) |->
                            KeepComponent(selection, id, selection.total)]]
    /\ UNCHANGED pipelineVars
    /\ UNCHANGED <<call, compressor, rest>>

NextSelect ==
    \/ KeepMainForegroundRegions
    \/ SelectComponents

SpecSelect == InitSelect /\ [][NextSelect]_vars

----------------------------------------------------------------------------
(* Properties of the component selection (specification SpecSelect) *)

\* area >= max(minArea, 0.12 * bestArea), with 0.12 * bestArea rounded to the
\* nearest integer first if `rounded`
PassesAreaTest(area, bestArea, total, rounded) ==
    /\ area >= Max(120, RoundDiv(9 * total, 5000))
    /\ IF rounded THEN area >= RoundDiv(3 * bestArea, 25)
                  ELSE 25 * area >= 3 * bestArea

\* the selection on component statistics is the union of (a) and (b) for
\* some component b of maximal score
StatisticsSelection(rounded) ==
    LET ids == 1..Len(selection.componentAreas)
        score(id) == 5 * selection.componentAreas[id]
                       + (IF selection.componentTouchesCenter[id]
                          THEN selection.total ELSE 0)
    IN  \E b \in ids :
            /\ \A o \in ids : score(o) <= score(b)
            /\ \A id \in ids :
                   selection.keep[id] <=>
                       \/ id = b
                       \/ /\ selection.componentTouchesCenter[id]
                          /\ PassesAreaTest(selection.componentAreas[id],
                                            selection.componentAreas[b],
                                            selection.total, rounded)

\* the same on a mask: the output is the union of (a) and (b), hence a
\* subset of the input, and holds no other value than 0 and 1
MaskSelection(rounded) ==
    LET comps == Components(maskIn, width)
    IN  /\ \E best \in comps :
               /\ \A o \in comps : Score(o, width, height) <= Score(best, width, height)
               /\ ForegroundOf(foregroundMask) =
                      best \cup UNION {c \in comps \ {best} :
                                         /\ TouchesCenter(c, width, height)
                                         /\ PassesAreaTest(Cardinality(c), Cardinality(best),
                                                           width * height, rounded)}
        /\ ForegroundOf(foregroundMask) \subseteq ForegroundOf(maskIn)
        /\ \A i \in DOMAIN foregroundMask : foregroundMask[i] \in {0, 1}

\* C19 as stated (component selection): with two or more components the
\* output is exactly the union of (a) the component maximising
\* area + (touchesCenter ? 0.2 * total : 0) and (b) every other component
\* touching the centre with area >= max(minArea, 0.12 * bestArea),
\* minArea = max(120, round(0.0018 * total)); all other pixels are 0 and the
\* output is a subset of the input.
C19_SelectionUnrounded ==
    /\ selection.pc = "selected" => StatisticsSelection(FALSE)
    /\ (pc = "kept" /\ Cardinality(Components(maskIn, width)) >= 2)
          => MaskSelection(FALSE)

\* C19 as amended: the same with the area test
\* area >= max(minArea, round(0.12 * bestArea)).
C19_SelectionRounded ==
    /\ selection.pc = "selected" => StatisticsSelection(TRUE)
    /\ (pc = "kept" /\ Cardinality(Components(maskIn, width)) >= 2)
          => MaskSelection(TRUE)

\* a second component touching the centre was kept with an area equal to the
\* rounded 0.12 * bestArea and below the unrounded one, and a third dropped
C19_SelectionRoundedWitness ==
    /\ selection.pc = "selected"
    /\ \E b, id, o \in 1..Len(selection.keep) :
           /\ b = BestComponent(selection, selection.total)
           /\ id # b
           /\ selection.keep[id]
           /\ 25 * selection.componentAreas[id] < 3 * selection.componentAreas[b]
           /\ ~ selection.keep[o]

----------------------------------------------------------------------------
(* The entry of buildLocalForegroundMask with a pathological input: width *)
(* or height 0, or no pixel in the buffer                                 *)

\* a data buffer of length 0
EmptyBuffer == << >>

InitEntry ==
    /\ pc = "start"
    /\ width \in 0..MaxWidth
    /\ height \in 0..MaxHeight
    /\ data = EmptyBuffer
    /\ featherAmount \in 0..MaxFeather
    /\ model = None
    /\ gradient = None
    /\ seeds = None
    /\ backgroundRegion = NoMask
    /\ maskIn = NoMask
    /\ foregroundMask = NoMask
    /\ matte = NoMask
    /\ cropBounds = None
    /\ AuxIdle

\* there is no test of width, height or data.length before line 313
NextEntry == EstimateBackgroundModel

SpecEntry == InitEntry /\ [][NextEntry]_vars

----------------------------------------------------------------------------
(* Properties of the entry (specification SpecEntry) *)

\* C12 (pathological input rejected): with width <= 0, height <= 0 or an
\* empty buffer no stage of the pipeline runs: the run never leaves its
\* start, and no background model is ever computed.
C12_InputRejected ==
    (width <= 0 \/ height <= 0 \/ DOMAIN data = {}) =>
        (pc = "start" /\ model = None)

----------------------------------------------------------------------------
(* removeBackground: the choice of the engine.  Every call is made on a   *)
(* BackgroundRemover constructed for it (the page constructs one per      *)
(* image and never calls updateOptions), so provider and apiKey are fixed *)
(* during a call.  Each await is a step that completes or throws.  The    *)
(* events of all calls are kept, each with the number of its call;        *)
(* call.reported is the sequence of percent values the current call has   *)
(* passed to onProgress, call.progress the last of them.                  *)

MaxCalls == 2

\* calls of the progress callback of the inference configuration in one call
MaxDownloadReports == 2

\* percent = Math.round((current / total) * 100) of the model download
DownloadPercents == {0, 50, 100}

\* mapped = 10 + Math.floor(percent * 0.45)
MappedProgress(percent) == 10 + ((percent * 45) \div 100)

Providers == {"local", "removebg"}

ApiKeys == {"", "key"}

\* variant of UsesRemoveBgApi without the test of the key
UsesRemoveBgApiAnyKey(provider, apiKey) == provider = "removebg"

\* this.provider === 'removebg' && this.apiKey
UsesRemoveBgApi(provider, apiKey) == provider = "removebg" /\ apiKey # ""

Event(kind) ==
    [call |-> call.n, kind |-> kind, provider |-> call.provider, key |-> call.apiKey]

\* the call moves to position `to`, passes the values `reports` to
\* onProgress in this order, and records `kinds`
Advance(to, reports, kinds) ==
    call' = [call EXCEPT !.pc = to,
                         !.progress = IF Len(reports) = 0 THEN @
                                      ELSE reports[Len(reports)],
                         !.reported = @ \o reports,
                         !.events = @ \o [k \in 1..Len(kinds) |-> Event(kinds[k])]]

\* an exception leaves removeBackgroundWithRemoveBgApi and removeBackground
ApiThrows == Advance("threw", << >>, <<"threw">>)

\* an exception leaves removeBackgroundWithImgly into the catch block
ImglyThrows == Advance("imgly:caught", << >>, << >>)

callFrame == <<pipelineVars, compressor, selection, rest>>

InitCall ==
    /\ PipelineIdle
    /\ AuxIdle

\* new BackgroundRemover(options).removeBackground(source), up to the first
\* await of the engine chosen
RemoveBackground ==
    /\ call.pc \in {"idle", "returned", "threw"}
    /\ call.n < MaxCalls
    /\ \E provider \in Providers, apiKey \in ApiKeys :
          call' = [call EXCEPT
                      !.n = call.n + 1,
                      !.provider = provider,
                      !.apiKey = apiKey,
                      !.pc = IF UsesRemoveBgApi(provider, apiKey)
                             THEN "api:sourceToFile" ELSE "imgly:load",
                      !.progress = IF UsesRemoveBgApi(provider, apiKey) THEN 5 ELSE 8,
                      !.reported = IF UsesRemoveBgApi(provider, apiKey) THEN <<5>>
                                   ELSE IF provider = "removebg" THEN <<8, 8>>
                                   ELSE <<8>>,
                      !.downloads = 0,
                      !.events = Append(@,
                          [call |-> call.n + 1,
                           kind |-> IF UsesRemoveBgApi(provider, apiKey)
                                    THEN "removebg" ELSE "imgly",
                           provider |-> provider, key |-> apiKey])]
    /\ UNCHANGED callFrame

\* await this.sourceToFile(imageSource); then the request is sent
ApiSourceToFile ==
    /\ call.pc = "api:sourceToFile"
    /\ \E ok \in BOOLEAN :
          IF ok THEN Advance("api:fetch", <<25>>, <<"fetch">>) ELSE ApiThrows
    /\ UNCHANGED callFrame

\* await fetch(...): a network error, a response that is not ok, or one that is
ApiFetch ==
    /\ call.pc = "api:fetch"
    /\ \E ok \in BOOLEAN :
          IF ok THEN Advance("api:blob", <<80>>, << >>) ELSE ApiThrows
    /\ UNCHANGED callFrame

\* await response.blob(): empty or not
ApiBlob ==
    /\ call.pc = "api:blob"
    /\ \E ok \in BOOLEAN :
          IF ok THEN Advance("api:loadImage", << >>, << >>) ELSE ApiThrows
    /\ UNCHANGED callFrame

\* await this.loadImage(blob)
ApiLoadImage ==
    /\ call.pc = "api:loadImage"
    /\ \E ok \in BOOLEAN :
          IF ok THEN Advance("returned", <<100>>, <<"returned">>) ELSE ApiThrows
    /\ UNCHANGED callFrame

\* await this.loadImglyRemoveBackground(): the function loaded by an earlier
\* call is reused; otherwise the import succeeds or fails
ImglyLoad ==
    /\ call.pc = "imgly:load"
    /\ \E ok \in BOOLEAN :
          IF ok \/ call.imglyLoaded
          THEN call' = [call EXCEPT !.pc = "imgly:sourceToBlob", !.imglyLoaded = TRUE]
          ELSE ImglyThrows
    /\ UNCHANGED callFrame

\* await this.sourceToBlob(imageSource)
ImglySourceToBlob ==
    /\ call.pc = "imgly:sourceToBlob"
    /\ \E ok \in BOOLEAN :
          IF ok THEN Advance("imgly:inference", <<35>>, << >>) ELSE ImglyThrows
    /\ UNCHANGED callFrame

\* await removeBackground(sourceBlob, inferenceConfig): a blob, an empty
\* blob (an error is thrown) or an exception
ImglyInference ==
    /\ call.pc = "imgly:inference"
    /\ \E result \in {"blob", "empty", "throws"} :
          IF result = "blob" THEN Advance("imgly:blobToCanvas", <<70>>, << >>)
          ELSE ImglyThrows
    /\ UNCHANGED callFrame

\* the progress callback of inferenceConfig, called by the library while
\* the inference is awaited
ImglyDownloadProgress ==
    /\ call.pc = "imgly:inference"
    /\ call.downloads < MaxDownloadReports
    /\ \E percent \in DownloadPercents :
          call' = [call EXCEPT !.progress = MappedProgress(percent),
                               !.reported = Append(@, MappedProgress(percent)),
                               !.downloads = @ + 1]
    /\ UNCHANGED callFrame

\* await this.blobToCanvas(aiBlob), then crop and composite
ImglyBlobToCanvas ==
    /\ call.pc = "imgly:blobToCanvas"
    /\ \E ok \in BOOLEAN :
          IF ok THEN Advance("imgly:canvasToBlob", <<100>>, << >>) ELSE ImglyThrows
    /\ UNCHANGED callFrame

\* await this.canvasToBlob(outputCanvas, 'image/png') of the returned object
ImglyCanvasToBlob ==
    /\ call.pc = "imgly:canvasToBlob"
    /\ \E ok \in BOOLEAN :
          IF ok THEN Advance("returned", << >>, <<"returned">>) ELSE ImglyThrows
    /\ UNCHANGED callFrame

\* the catch block of removeBackgroundLocally, up to the first await of
\* removeBackgroundHeuristic
FallbackToHeuristic ==
    /\ call.pc = "imgly:caught"
    /\ Advance("heuristic", <<18, 5>>, <<"imglyThrew", "heuristic">>)
    /\ UNCHANGED callFrame

\* removeBackgroundHeuristic from its first await to its end; 90 is
\* reported when the result is cropped
RemoveBackgroundHeuristic ==
    /\ call.pc = "heuristic"
    /\ \E ok \in BOOLEAN, cropped \in BOOLEAN :
          IF ok THEN Advance("returned",
                             <<12, 20, 35, 65, 82>>
                                 \o (IF cropped THEN <<90>> ELSE << >>) \o <<100>>,
                             <<"returned">>)
          ELSE Advance("threw", << >>, <<"threw">>)
    /\ UNCHANGED callFrame

NextCall ==
    \/ RemoveBackground
    \/ ApiSourceToFile
    \/ ApiFetch
    \/ ApiBlob
    \/ ApiLoadImage
    \/ ImglyLoad
    \/ ImglySourceToBlob
    \/ ImglyInference
    \/ ImglyDownloadProgress
    \/ ImglyBlobToCanvas
    \/ ImglyCanvasToBlob
    \/ FallbackToHeuristic
    \/ RemoveBackgroundHeuristic

SpecCall == InitCall /\ [][NextCall]_vars

----------------------------------------------------------------------------
(* Properties of the choice of the engine (specification SpecCall) *)

EventIndices == 1..Len(call.events)

\* C13 (strategy selection): the heuristic engine starts only after the
\* local AI attempt of the same call has thrown, never in a call that took
\* the remove.bg strategy (provider 'removebg' with a non-empty apiKey), and
\* no request is sent to the remove.bg API with an empty apiKey.
C13_StrategySelection ==
    \A k \in EventIndices :
        LET e == call.events[k]
        IN  /\ e.kind = "heuristic" =>
                  /\ \E j \in 1..(k - 1) :
                         /\ call.events[j].call = e.call
                         /\ call.events[j].kind = "imglyThrew"
                  /\ \E j \in 1..(k - 1) :
                         /\ call.events[j].call = e.call
                         /\ call.events[j].kind = "imgly"
                  /\ ~ (e.provider = "removebg" /\ e.key # "")
                  /\ \A j \in EventIndices :
                         call.events[j].call = e.call =>
                             call.events[j].kind \notin {"removebg", "fetch"}
            /\ e.kind = "fetch" => (e.key # "" /\ e.provider = "removebg")

\* a call that sent its request to remove.bg and threw was followed by a
\* call without key whose local AI attempt threw and whose heuristic ran
C13_StrategySelectionWitness ==
    /\ call.pc = "returned"
    /\ \E j, k \in EventIndices :
           /\ j < k
           /\ call.events[j].kind = "fetch"
           /\ call.events[k].kind = "heuristic"
           /\ call.events[k].provider = "removebg"
           /\ call.events[k].key = ""

\* C30 (progress ordering): during one removeBackground call, on every path
\* (remove.bg API, local AI engine, AI failure followed by the heuristic),
\* the percent values passed to onProgress are non-decreasing, and on
\* success the last value is 100.
C30_ProgressOrdered ==
    /\ \A k \in 1..(Len(call.reported) - 1) : call.reported[k] <= call.reported[k + 1]
    /\ call.pc = "returned" =>
          /\ Len(call.reported) > 0
          /\ call.reported[Len(call.reported)] = 100

----------------------------------------------------------------------------
(* ImageCompressor.compress with the default options.  A quality q is     *)
(* carried as 12800 * q, which keeps every midpoint of the binary search  *)
(* an integer; a scale factor as its number of tenths.  The encoder is    *)
(* any function of the canvas and the quality: each canvasToBlob draws    *)
(* the size of its blob from BlobSizes (no canvas is encoded twice at the *)
(* same quality in one run: the qualities of the resize loop are          *)
(* 0.95, 0.8999999999999999, ... in doubles, none of them a midpoint).    *)

\* this.targetSize = 300 * 1024
TargetSize == 300 * 1024

\* this.tolerance = 5 * 1024
Tolerance == 5 * 1024

\* this.maxIterations
MaxIterations == 15

\* this.maxResolution
MaxResolution == 1920

\* blob sizes below the tolerance band, at both of its ends, and above the target
BlobSizes == {TargetSize - Tolerance - 1, TargetSize - Tolerance, TargetSize, TargetSize + 1}

\* width and height of the images compressed
CompressorImages == {<<640, 480>>, <<1000, 1000>>, <<2000, 1000>>, <<3000, 2000>>}

\* calculateOptimalDimensions with preserveResolution = true
calculateOptimalDimensions(w, h) ==
    IF Max(w, h) <= MaxResolution THEN <<w, h>>
    ELSE <<RoundDiv(w * MaxResolution, Max(w, h)), RoundDiv(h * MaxResolution, Max(w, h))>>

\* the last resort of compressWithResize up to its canvasToBlob
EnterLastResort(c) ==
    [c EXCEPT !.pc = "lastResort",
              !.w = Min(1280, c.imgW),
              !.h = RoundDiv(Min(1280, c.imgW) * c.imgH, c.imgW)]

\* the while test of compressWithResize and the body up to the first
\* canvasToBlob, for scaleFactor = scale / 10.  The loop runs for the eight
\* values 1.0, 0.9, ..., 0.30000000000000016.
EnterScale(c, scale) ==
    IF scale < 3 THEN EnterLastResort(c)
    ELSE IF Max(RoundDiv(c.imgW * scale, 10), RoundDiv(c.imgH * scale, 10)) < 800
         THEN EnterLastResort(c)
    ELSE [c EXCEPT !.pc = "resize", !.scale = scale,
                   !.w = RoundDiv(c.imgW * scale, 10),
                   !.h = RoundDiv(c.imgH * scale, 10),
                   !.quality = 12160]

\* binarySearchCompression after its loop
FinishSearch(c) ==
    IF (~ c.best.has) \/ c.best.size > TargetSize THEN EnterScale(c, 10)
    ELSE [c EXCEPT !.pc = "done", !.result = c.best]

\* one iteration of the binary search, from the blob of size `size`
SearchIteration(c, size) ==
    LET currentQuality == (c.minQuality + c.maxQuality) \div 2
        fits   == size <= TargetSize
        within == fits /\ size >= TargetSize - Tolerance
        next   == [c EXCEPT
                      !.best = IF fits
                               THEN [has |-> TRUE, size |-> size,
                                     quality |-> currentQuality, w |-> c.w, h |-> c.h]
                               ELSE @,
                      !.minQuality = IF fits /\ ~ within THEN currentQuality ELSE @,
                      !.maxQuality = IF ~ fits THEN currentQuality ELSE @,
                      !.iterations = IF within THEN @ ELSE @ + 1]
    IN  IF \/ within
           \/ next.iterations >= MaxIterations
           \/ next.maxQuality - next.minQuality < 128
        THEN FinishSearch(next)
        ELSE next

\* one quality of the resize loop, from the blob of size `size`.  The loop
\* runs for nine qualities: the tenth, 0.4999999999999996, is below 0.5.
ResizeIteration(c, size) ==
    IF size <= TargetSize
    THEN [c EXCEPT !.pc = "done",
                   !.result = [has |-> TRUE, size |-> size, quality |-> c.quality,
                               w |-> c.w, h |-> c.h]]
    ELSE IF c.quality - 640 > 6400 THEN [c EXCEPT !.quality = @ - 640]
    ELSE EnterScale(c, c.scale - 1)

compressorFrame == <<pipelineVars, call, selection, rest>>

InitCompress ==
    /\ PipelineIdle
    /\ AuxIdle

\* compress(file) up to the first canvasToBlob of binarySearchCompression
Compress ==
    /\ compressor.pc = "idle"
    /\ \E img \in CompressorImages :
          compressor' =
              [CompressorIdle EXCEPT
                  !.pc = "search", !.imgW = img[1], !.imgH = img[2],
                  !.w = calculateOptimalDimensions(img[1], img[2])[1],
                  !.h = calculateOptimalDimensions(img[1], img[2])[2],
                  !.minQuality = 1280, !.maxQuality = 12800]
    /\ UNCHANGED compressorFrame

BinarySearchStep ==
    /\ compressor.pc = "search"
    /\ \E size \in BlobSizes : compressor' = SearchIteration(compressor, size)
    /\ UNCHANGED compressorFrame

ResizeStep ==
    /\ compressor.pc = "resize"
    /\ \E size \in BlobSizes : compressor' = ResizeIteration(compressor, size)
    /\ UNCHANGED compressorFrame

\* the blob at quality 0.6 is returned as it comes
LastResort ==
    /\ compressor.pc = "lastResort"
    /\ \E size \in BlobSizes :
          compressor' =
              [compressor EXCEPT
                  !.pc = "done",
                  !.result = [has |-> TRUE, size |-> size, quality |-> 7680,
                              w |-> compressor.w, h |-> compressor.h]]
    /\ UNCHANGED compressorFrame

\* canvas.toBlob gives null: canvasToBlob rejects and compress throws
EncodeFails ==
    /\ compressor.pc \in {"search", "resize", "lastResort"}
    /\ compressor' = [compressor EXCEPT !.pc = "threw"]
    /\ UNCHANGED compressorFrame

NextCompress ==
    \/ Compress
    \/ BinarySearchStep
    \/ ResizeStep
    \/ LastResort
    \/ EncodeFails

SpecCompress == InitCompress /\ [][NextCompress]_vars

----------------------------------------------------------------------------
(* Properties of the compressor (specification SpecCompress) *)

\* C14 (size target): whatever the image and the sizes of the blobs the
\* encoder gives, the blob compress returns has size <= targetSize.
C14_SizeTarget ==
    compressor.pc = "done" => compressor.result.size <= TargetSize

----------------------------------------------------------------------------
(* Properties of computeGradientMap (specification Spec) *)

\* a neighbour lookup of pixel idx is clamped to the pixel itself
OnBufferEdge(idx) ==
    \/ idx % width = 0 \/ idx % width = width - 1
    \/ idx \div width = 0 \/ idx \div width = height - 1

\* the luma difference across pixel idx along one axis, `stride` being 1 for
\* the row and width for the column: between the two neighbours, or between
\* the one neighbour in the image and the pixel, or 0 without neighbours
AxisDifference(idx, stride, position, size) ==
    IF size = 1 THEN 0
    ELSE IF position = 0 THEN Abs(Luma(data[idx + stride]) - Luma(data[idx]))
    ELSE IF position = size - 1 THEN Abs(Luma(data[idx]) - Luma(data[idx - stride]))
    ELSE Abs(Luma(data[idx + stride]) - Luma(data[idx - stride]))

\* C21 as stated (gradient map): one non-negative value per pixel, zero at
\* every buffer-edge pixel, where a neighbour lookup is clamped to the pixel.
C21_GradientZeroAtEdges ==
    pc = "gradient" =>
        /\ DOMAIN gradient = 0..(width * height - 1)
        /\ \A idx \in DOMAIN gradient :
               /\ gradient[idx] >= 0
               /\ OnBufferEdge(idx) => gradient[idx] = 0

\* C21 as amended: one non-negative value per pixel; at a buffer-edge pixel
\* the difference along the clamped axis is the one-sided difference between
\* the pixel and its neighbour inside the image, and it is zero only along
\* an axis on which the image has a single pixel.
C21_GradientOneSided ==
    pc = "gradient" =>
        /\ DOMAIN gradient = 0..(width * height - 1)
        /\ \A idx \in DOMAIN gradient :
               /\ gradient[idx] >= 0
               /\ gradient[idx] =
                      AxisDifference(idx, 1, idx % width, width)
                        + AxisDifference(idx, width, idx \div width, height)

\* a pixel of the left column next to a pixel of another luma has a positive
\* gradient, and a corner pixel has gradient 0
C21_GradientOneSidedWitness ==
    /\ pc = "gradient"
    /\ width > 1
    /\ \E idx \in DOMAIN gradient :
           /\ idx % width = 0
           /\ Luma(data[idx + 1]) # Luma(data[idx])
           /\ gradient[idx] > 0
    /\ gradient[0] = 0

----------------------------------------------------------------------------
(* dilateBinary and erodeBinary on their own: any mask of at most MaxCells *)
(* pixels and any radius up to MaxRadius                                   *)

MaxRadius == 2

InitMorph ==
    /\ pc = "mask"
    /\ width \in 1..MaxWidth
    /\ height \in 1..MaxHeight
    /\ width * height <= MaxCells
    /\ foregroundMask \in [0..(width * height - 1) -> {0, 1}]
    /\ morphRadius \in 1..MaxRadius
    /\ data = None
    /\ featherAmount = 0
    /\ model = None
    /\ gradient = None
    /\ seeds = None
    /\ backgroundRegion = NoMask
    /\ maskIn = NoMask
    /\ matte = NoMask
    /\ cropBounds = None
    /\ call = CallIdle
    /\ compressor = CompressorIdle
    /\ selection = SelectionIdle
    /\ options = OptionsIdle
    /\ imgly = ImglyIdle
    /\ page = PageIdle

morphFrame ==
    <<width, height, data, featherAmount, model, gradient, seeds, backgroundRegion,
      matte, cropBounds, call, compressor, selection, morphRadius, options, imgly, page>>

DilateBinary ==
    /\ pc = "mask"
    /\ pc' = "dilated"
    /\ maskIn' = foregroundMask
    /\ foregroundMask' = dilateBinary(foregroundMask, width, height, morphRadius)
    /\ UNCHANGED morphFrame

ErodeBinary ==
    /\ pc = "mask"
    /\ pc' = "eroded"
    /\ maskIn' = foregroundMask
    /\ foregroundMask' = erodeBinary(foregroundMask, width, height, morphRadius)
    /\ UNCHANGED morphFrame

NextMorph ==
    \/ DilateBinary
    \/ ErodeBinary

SpecMorph == InitMorph /\ [][NextMorph]_vars

----------------------------------------------------------------------------
(* Properties of the morphology (specification SpecMorph) *)

\* pixel j of the image lies in the (2r+1) x (2r+1) window around pixel i
InSquare(i, j, r) ==
    /\ Abs((i % width) - (j % width)) <= r
    /\ Abs((i \div width) - (j \div width)) <= r

\* C22 (morphology at the image bounds): erodeBinary yields 1 at a pixel iff
\* every pixel of the image in its window is 1, dilateBinary yields 1 iff
\* some pixel of the image in its window is 1; positions outside the image
\* count for nothing, so an all-foreground mask erodes to itself.
C22_MorphologyAtBounds ==
    /\ pc = "eroded" =>
          /\ \A i \in DOMAIN maskIn :
                 /\ foregroundMask[i] \in {0, 1}
                 /\ foregroundMask[i] = 1 <=>
                        \A j \in DOMAIN maskIn :
                            InSquare(i, j, morphRadius) => maskIn[j] = 1
          /\ (\A i \in DOMAIN maskIn : maskIn[i] = 1) => foregroundMask = maskIn
    /\ pc = "dilated" =>
          \A i \in DOMAIN maskIn :
              /\ foregroundMask[i] \in {0, 1}
              /\ foregroundMask[i] = 1 <=>
                     \E j \in DOMAIN maskIn :
                         InSquare(i, j, morphRadius) /\ maskIn[j] = 1

\* an erosion kept a pixel of the image edge and removed another pixel of
\* the foreground
C22_MorphologyAtBoundsWitness ==
    /\ pc = "eroded"
    /\ \E i \in DOMAIN maskIn : OnBufferEdge(i) /\ foregroundMask[i] = 1
    /\ \E i \in DOMAIN maskIn : maskIn[i] = 1 /\ foregroundMask[i] = 0

----------------------------------------------------------------------------
(* The configuration of featherAmount: the constructor, updateOptions, and *)
(* the softening stage that reads the field                                *)

\* this.featherAmount = options.featherAmount || 2
constructorFeatherAmount(given) == IF given = 0 THEN 2 ELSE given

InitOptions ==
    /\ pc = "closed"
    /\ width \in 1..MaxWidth
    /\ height \in 1..MaxHeight
    /\ width * height <= MaxCells
    /\ foregroundMask \in [0..(width * height - 1) -> {0, 1}]
    /\ \E given \in 0..MaxFeather :
          /\ options = [OptionsIdle EXCEPT !.via = "constructor", !.featherAmount = given]
          /\ featherAmount = constructorFeatherAmount(given)
    /\ morphRadius = 0
    /\ data = None
    /\ model = None
    /\ gradient = None
    /\ seeds = None
    /\ backgroundRegion = NoMask
    /\ maskIn = NoMask
    /\ matte = NoMask
    /\ cropBounds = None
    /\ call = CallIdle
    /\ compressor = CompressorIdle
    /\ selection = SelectionIdle
    /\ imgly = ImglyIdle
    /\ page = PageIdle

\* updateOptions({featherAmount: given})
UpdateOptions ==
    /\ pc = "closed"
    /\ \E given \in 0..MaxFeather :
          /\ options' = [options EXCEPT !.via = "updateOptions", !.featherAmount = given]
          /\ featherAmount' = given
    /\ UNCHANGED <<pc, width, height, data, model, gradient, seeds, backgroundRegion,
                   maskIn, foregroundMask, matte, cropBounds, call, compressor,
                   selection, morphRadius, imgly, page>>

\* the last two lines of buildLocalForegroundMask; morphRadius records blurRadius
SoftenConfigured ==
    /\ pc = "closed"
    /\ morphRadius' = BlurRadius(featherAmount)
    /\ maskIn' = foregroundMask
    /\ matte' = softenBinaryMask(foregroundMask, width, height, morphRadius')
    /\ pc' = "softened"
    /\ UNCHANGED <<width, height, data, featherAmount, model, gradient, seeds,
                   backgroundRegion, foregroundMask, cropBounds, call, compressor,
                   selection, options, imgly, page>>

NextOptions ==
    \/ UpdateOptions
    \/ SoftenConfigured

SpecOptions == InitOptions /\ [][NextOptions]_vars

\* C23 (feather radius): for every non-negative integer featherAmount given
\* in the configuration, by the constructor or by updateOptions, zero
\* included, the softening stage blurs with radius max(1, given + 1).
C23_BlurRadiusOfGiven ==
    pc = "softened" =>
        /\ morphRadius = Max(1, options.featherAmount + 1)
        /\ matte = softenBinaryMask(maskIn, width, height,
                                    Max(1, options.featherAmount + 1))

----------------------------------------------------------------------------
(* loadImglyRemoveBackground and the promise chain of the dynamic import.  *)
(* imgly.promise is imglyModulePromise ("null", or "pending"/"fulfilled"   *)
(* for the chain import().then().catch()), imgly.fn says whether           *)
(* imglyRemoveBackgroundFn is set, imgly.import is the position of the     *)
(* chain: "loading" while the import is in flight, "resolved" or           *)
(* "resolvedBad" when it delivered a module with or without a default      *)
(* function and the then-handler has not run yet, "rejected" when the      *)
(* rejection is on its way to the catch-handler.                           *)

MaxLoads == 5

\* variant of MustImport that ignores the pending promise
MustImportWheneverUncached(loader) == TRUE

\* if (!imglyModulePromise)
MustImport(loader) == loader.promise = "null"

InitLoader ==
    /\ PipelineIdle
    /\ AuxIdle

loaderFrame == <<pipelineVars, call, compressor, selection, morphRadius, options, page>>

LoadImglyRemoveBackground ==
    /\ imgly.calls < MaxLoads
    /\ imgly' =
          IF imgly.fn
          THEN [imgly EXCEPT !.calls = @ + 1, !.last = "cached"]
          ELSE IF MustImport(imgly)
               THEN [imgly EXCEPT !.calls = @ + 1, !.last = "started",
                                  !.promise = "pending", !.import = "loading",
                                  !.started = @ + 1, !.waiting = @ + 1]
               ELSE [imgly EXCEPT !.calls = @ + 1, !.last = "shared",
                                  !.waiting = @ + 1]
    /\ UNCHANGED loaderFrame

\* the import settles: with a module whose default is a function, with a
\* module without one, or with a rejection
ImportSettles ==
    /\ imgly.import = "loading"
    /\ \E outcome \in {"resolved", "resolvedBad", "rejected"} :
          imgly' = [imgly EXCEPT !.import = outcome]
    /\ UNCHANGED loaderFrame

\* .then((module) => ...)
ThenHandler ==
    /\ imgly.import \in {"resolved", "resolvedBad"}
    /\ imgly' =
          IF imgly.import = "resolved"
          THEN [imgly EXCEPT !.fn = TRUE, !.import = "none",
                             !.promise = "fulfilled", !.waiting = 0]
          ELSE [imgly EXCEPT !.import = "rejected"]
    /\ UNCHANGED loaderFrame

\* .catch((error) => ...)
CatchHandler ==
    /\ imgly.import = "rejected"
    /\ imgly' = [imgly EXCEPT !.promise = "null", !.import = "none",
                              !.failed = @ + 1, !.waiting = 0]
    /\ UNCHANGED loaderFrame

NextLoader ==
    \/ LoadImglyRemoveBackground
    \/ ImportSettles
    \/ ThenHandler
    \/ CatchHandler

SpecLoader == InitLoader /\ [][NextLoader]_vars

\* C24 (init-once module loading): an import is started only when no import
\* is pending and no function is cached; a call made while an import is
\* pending shares its promise; no import starts once the function is cached;
\* a failed load (the import rejects or delivers no function) clears the
\* cached promise, so the next call starts a fresh import; the imports
\* started never exceed 1 + the failed loads.
C24_InitOnce ==
    /\ [](/\ imgly.started <= 1 + imgly.failed
          /\ imgly.import # "none" <=> (imgly.promise = "pending")
          /\ imgly.fn => imgly.promise = "fulfilled"
          /\ imgly.started - imgly.failed = 1 <=> imgly.promise # "null")
    /\ [][/\ imgly'.started # imgly.started =>
               /\ imgly.promise = "null"
               /\ ~imgly.fn
               /\ imgly'.started = imgly.started + 1
          /\ (imgly'.calls # imgly.calls /\ imgly.promise = "pending") =>
               /\ imgly'.last = "shared"
               /\ imgly'.waiting = imgly.waiting + 1
               /\ imgly'.promise = "pending"
          /\ (imgly'.calls # imgly.calls /\ imgly.promise = "null") =>
               imgly'.last = "started"
          /\ imgly'.failed # imgly.failed => imgly'.promise = "null"]_vars

\* a load failed, the next call started a fresh import, another call shared it
C24_InitOnceWitness ==
    /\ imgly.started = 2
    /\ imgly.failed = 1
    /\ imgly.last = "shared"
    /\ imgly.waiting = 2

----------------------------------------------------------------------------
(* The pixels estimateBackgroundModel reads (specification Spec) *)

\* the (x, y) arguments of the addSample calls: the loop over the top and
\* bottom bands, then the loop over the left and right bands
SampleCoordinates(w, h) ==
    LET border == ModelBorder(w, h)
        step   == ModelStep(w, h)
        Steps(from, to) == {v \in from..(to - 1) : (v - from) % step = 0}
    IN  UNION {{<<x, y>>, <<x, h - 1 - y>>} : x \in Steps(0, w), y \in Steps(0, border)}
        \cup
        UNION {{<<x, y>>, <<w - 1 - x, y>>} :
                  x \in Steps(0, border), y \in Steps(border, h - border)}

\* C25 (sampling inside the buffer): for every image with width >= 1 and
\* height >= 1, every addSample(x, y) call of estimateBackgroundModel has
\* 0 <= x < width and 0 <= y < height, so the returned centre colour and
\* tolerances are defined numbers.
C25_SamplesInBuffer ==
    (pc # "start") =>
        /\ \A c \in SampleCoordinates(width, height) :
               /\ 0 <= c[1] /\ c[1] < width
               /\ 0 <= c[2] /\ c[2] < height
        /\ ~ model.nan

----------------------------------------------------------------------------
(* applyMaskToImage: the pixel buffer and the full-size matte after the    *)
(* mask has been scaled back to the image                                  *)

MaxApplyCells == 3

Translucent == Pixel(40, 80, 120, 129)

ApplyPixels == {Grey, Clear, Translucent}

\* mask values: 0, 1/2, 1 and a value above 1
ApplyMatte == {Frac(0, 1), Frac(1, 2), Frac(1, 1), Frac(3, 2)}

BackgroundColors == {NoColor, [set |-> TRUE, r |-> 255, g |-> 255, b |-> 255]}

\* this.clamp(mask[i], 0, 1) on a fraction
ClampUnit(m) ==
    IF m[1] < 0 THEN <<0, 1>> ELSE IF m[1] > m[2] THEN <<1, 1>> ELSE m

\* a store into the Uint8ClampedArray
Store(v) == clamp(v, 0, 255)

\* one iteration of the loop, with matte = weight * (alpha / 255) kept as
\* the fraction (weight[1] * alpha) / (weight[2] * 255)
BlendPixel(p, weight, color) ==
    LET num == weight[1] * p.a
        den == weight[2] * 255
    IN  IF color.set
        THEN Pixel(Store(RoundDiv(p.r * num + color.r * (den - num), den)),
                   Store(RoundDiv(p.g * num + color.g * (den - num), den)),
                   Store(RoundDiv(p.b * num + color.b * (den - num), den)),
                   255)
        ELSE [p EXCEPT !.a = Store(RoundDiv(255 * num, den))]

\* variant of MaskedPixel without the clamp of the mask value
MaskedPixelUnclamped(p, m, color) == BlendPixel(p, m, color)

MaskedPixel(p, m, color) == BlendPixel(p, ClampUnit(m), color)

applyMaskToImage(buf, mask, w, h, color) ==
    [i \in 0..(w * h - 1) |-> MaskedPixel(buf[i], mask[i], color)]

InitApply ==
    /\ pc = "masking"
    /\ width \in 1..MaxWidth
    /\ height \in 1..MaxHeight
    /\ width * height <= MaxApplyCells
    /\ data \in [0..(width * height - 1) -> ApplyPixels]
    /\ matte \in [0..(width * height - 1) -> ApplyMatte]
    /\ \E color \in BackgroundColors :
          options = [OptionsIdle EXCEPT !.via = "constructor", !.featherAmount = 2,
                                        !.backgroundColor = color]
    /\ featherAmount = 2
    /\ model = None
    /\ gradient = None
    /\ seeds = None
    /\ backgroundRegion = NoMask
    /\ maskIn = NoMask
    /\ foregroundMask = NoMask
    /\ cropBounds = None
    /\ morphRadius = 0
    /\ call = CallIdle
    /\ compressor = CompressorIdle
    /\ selection = SelectionIdle
    /\ imgly = ImglyIdle
    /\ page = PageIdle

ApplyMaskToImage ==
    /\ pc = "masking"
    /\ data' = applyMaskToImage(data, matte, width, height, options.backgroundColor)
    /\ pc' = "applied"
    /\ UNCHANGED <<width, height, featherAmount, model, gradient, seeds,
                   backgroundRegion, maskIn, foregroundMask, matte, cropBounds>>
    /\ UNCHANGED aux

NextApply == ApplyMaskToImage

SpecApply == InitApply /\ [][NextApply]_vars

\* C29 (frame of the apply step): without a background colour
\* applyMaskToImage changes only the alpha of each pixel, leaves R, G, B and
\* the matte as they were, and the new alpha never exceeds the source alpha;
\* with a background colour every alpha becomes 255.
C29_ApplyFrame ==
    [][(pc = "masking" /\ pc' = "applied") =>
          /\ matte' = matte
          /\ DOMAIN data' = DOMAIN data
          /\ \A i \in DOMAIN data :
                 IF options.backgroundColor.set
                 THEN data'[i].a = 255
                 ELSE /\ data'[i].r = data[i].r
                      /\ data'[i].g = data[i].g
                      /\ data'[i].b = data[i].b
                      /\ data'[i].a <= data[i].a]_vars

\* without a background colour, a translucent pixel under a mask value of
\* 1/2 has had its alpha lowered from 129 to 65
C29_ApplyFrameWitness ==
    /\ pc = "applied"
    /\ ~ options.backgroundColor.set
    /\ \E i \in DOMAIN data :
          /\ matte[i] = Frac(1, 2)
          /\ data[i] = Pixel(40, 80, 120, 65)

----------------------------------------------------------------------------
(* The page (src/background-remover.js): handleFileSelect,                 *)
(* showSelectedImagePreview, processImage and resetApp.  Files are         *)
(* numbered from 1, 0 stands for null.  Every await is a step that         *)
(* completes or throws; between two steps of a run any handler of the page *)
(* may run.  page.runs holds the processImage calls in flight: the await   *)
(* each is suspended at, the file handed to the awaited operation (arg)    *)
(* and the file its processedBlob was computed from (blobOf).              *)
(* page.previews holds the files whose preview load is pending, page.info  *)
(* what selectedImageInfo shows.  The upload zone is never hidden, so a    *)
(* file can be selected at any time.                                       *)

MaxFiles == 3

MaxRuns == 2

MaxSelections == 3

NoFile == 0

Files == 1..MaxFiles

\* file.type.match(/^image\/(jpeg|png|webp)$/): the last file is not an image
Supported(f) == f # MaxFiles

RemoveAt(seq, k) == [i \in 1..(Len(seq) - 1) |-> IF i < k THEN seq[i] ELSE seq[i + 1]]

\* variant of DisabledWhileProcessing that leaves the button enabled
DisabledWhileProcessingNever == FALSE

\* startProcessingBtn.disabled = true
DisabledWhileProcessing == TRUE

\* variant of PreviewIsCurrent without the test of currentFile
PreviewIsCurrentAlways(p, file) == TRUE

\* the negation of `currentFile !== file`
PreviewIsCurrent(p, file) == p.currentFile = file

\* finally { startProcessingBtn.disabled = false } at the end of run k
Finally(p, k) == [p EXCEPT !.runs = RemoveAt(@, k), !.disabled = FALSE]

\* the catch block, then finally
Threw(p, k) == [Finally(p, k) EXCEPT !.failed = @ + 1]

\* currentResult = {originalFile: currentFile, originalSize: currentFile.size,
\* ...} (a TypeError when currentFile is null), then showResults(currentResult)
ShowResults(p, k, blobOf) ==
    IF p.currentFile = NoFile THEN Threw(p, k)
    ELSE [Finally(p, k) EXCEPT
             !.result = [has |-> TRUE, originalFile |-> p.currentFile, blobOf |-> blobOf],
             !.comparison = TRUE,
             !.progressShown = FALSE]

\* compressor.compress(fileToCompress) is awaited
AwaitCompress(p, k, blobOf) ==
    [p EXCEPT !.runs[k].pc = "compress", !.runs[k].arg = blobOf, !.runs[k].blobOf = blobOf]

InitPage ==
    /\ PipelineIdle
    /\ AuxIdle

pageFrame == <<pipelineVars, call, compressor, selection, morphRadius, options, imgly>>

\* a drop on the drop zone or a change of the file input
HandleFileSelect ==
    /\ page.selections < MaxSelections
    /\ \E file \in Files :
          page' =
              IF ~ Supported(file)
              THEN [page EXCEPT !.selections = @ + 1]
              ELSE [page EXCEPT !.selections = @ + 1,
                                !.currentFile = file,
                                !.info = [kind |-> "size", file |-> file],
                                !.previews = Append(@, file),
                                !.settings = TRUE,
                                !.comparison = FALSE,
                                !.progressShown = FALSE]
    /\ UNCHANGED pageFrame

\* showSelectedImagePreview after `await loadImage(file)`
PreviewLoadSettles ==
    /\ \E k \in 1..Len(page.previews), ok \in BOOLEAN :
          page' =
              IF ok /\ PreviewIsCurrent(page, page.previews[k])
              THEN [page EXCEPT !.previews = RemoveAt(@, k),
                                !.info = [kind |-> "dimensions", file |-> page.previews[k]]]
              ELSE [page EXCEPT !.previews = RemoveAt(@, k)]
    /\ UNCHANGED pageFrame

\* a click on the start button (a disabled button receives no click):
\* processImage up to `await loadImage(currentFile)`
ProcessImage ==
    /\ page.settings
    /\ ~ page.disabled
    /\ page.started < MaxRuns
    /\ \E doRemoveBg \in BOOLEAN, doCompress \in BOOLEAN :
          page' =
              IF page.currentFile = NoFile \/ (~ doRemoveBg /\ ~ doCompress)
              THEN [page EXCEPT !.started = @ + 1]
              ELSE [page EXCEPT
                       !.started = @ + 1,
                       !.progressShown = TRUE,
                       !.disabled = DisabledWhileProcessing,
                       !.runs = Append(@, [pc |-> "loadImage",
                                           doRemoveBg |-> doRemoveBg,
                                           doCompress |-> doCompress,
                                           arg |-> page.currentFile,
                                           blobOf |-> page.currentFile])]
    /\ UNCHANGED pageFrame

\* `await loadImage(currentFile)` settles; the next operation is called,
\* removeBackground on the file that is currentFile now
LoadImageSettles ==
    /\ \E k \in 1..Len(page.runs), ok \in BOOLEAN :
          /\ page.runs[k].pc = "loadImage"
          /\ page' =
                IF ~ ok THEN Threw(page, k)
                ELSE IF page.runs[k].doRemoveBg
                     THEN [page EXCEPT !.runs[k].pc = "removeBackground",
                                       !.runs[k].arg = page.currentFile]
                     ELSE AwaitCompress(page, k, page.runs[k].blobOf)
    /\ UNCHANGED pageFrame

\* `await backgroundRemover.removeBackground(currentFile)` settles; it
\* throws when it was handed null
RemoveBackgroundSettles ==
    /\ \E k \in 1..Len(page.runs), ok \in BOOLEAN :
          /\ page.runs[k].pc = "removeBackground"
          /\ page' =
                IF ~ ok \/ page.runs[k].arg = NoFile THEN Threw(page, k)
                ELSE IF page.runs[k].doCompress
                     THEN AwaitCompress(page, k, page.runs[k].arg)
                     ELSE ShowResults(page, k, page.runs[k].arg)
    /\ UNCHANGED pageFrame

\* `await compressor.compress(fileToCompress)` settles
CompressSettles ==
    /\ \E k \in 1..Len(page.runs), ok \in BOOLEAN :
          /\ page.runs[k].pc = "compress"
          /\ page' =
                IF ~ ok THEN Threw(page, k)
                ELSE ShowResults(page, k, page.runs[k].blobOf)
    /\ UNCHANGED pageFrame

\* a click on newImageBtn
ResetApp ==
    /\ page' = [page EXCEPT !.currentFile = NoFile,
                            !.result = PageIdle.result,
                            !.settings = FALSE,
                            !.comparison = FALSE,
                            !.progressShown = FALSE,
                            !.info = PageIdle.info]
    /\ UNCHANGED pageFrame

NextPage ==
    \/ HandleFileSelect
    \/ PreviewLoadSettles
    \/ ProcessImage
    \/ LoadImageSettles
    \/ RemoveBackgroundSettles
    \/ CompressSettles
    \/ ResetApp

SpecPage == InitPage /\ [][NextPage]_vars

\* every awaited operation of a run settles
SpecPageFair ==
    /\ InitPage
    /\ [][NextPage]_vars
    /\ WF_vars(LoadImageSettles)
    /\ WF_vars(RemoveBackgroundSettles)
    /\ WF_vars(CompressSettles)

----------------------------------------------------------------------------
(* Properties of the page (specifications SpecPage and SpecPageFair) *)

\* C26 (result consistency under interleaving): whenever showResults is
\* called, the originalFile (and originalSize) of the result belong to the
\* file its processedBlob was computed from, even if handleFileSelect or
\* resetApp ran while processImage was suspended.
C26_ResultConsistent ==
    page.result.has => page.result.originalFile = page.result.blobOf

\* C27 (single run at a time): the start button is disabled exactly while a
\* processImage run is in flight, so at most one run is in flight, and the
\* button is re-enabled after every run, successful or not: once disabled
\* it is eventually enabled again.
C27_SingleRun ==
    /\ [](/\ Len(page.runs) <= 1
          /\ page.disabled <=> (Len(page.runs) = 1))
    /\ (page.disabled ~> ~ page.disabled)

\* a run has thrown, a later run has shown its result, and the button is
\* enabled again
C27_SingleRunWitness ==
    /\ page.started = 2
    /\ page.failed = 1
    /\ page.result.has
    /\ ~ page.disabled
    /\ page.runs = << >>

\* C28 (stale preview guard): the dimensions text is written only for the
\* file that is currentFile at the moment of writing, and a preview load
\* that completes while its file is no longer selected changes nothing.
C28_StalePreviewGuard ==
    [][/\ (page'.info # page.info /\ page'.info.kind = "dimensions") =>
              /\ page'.info.file = page.currentFile
              /\ page'.currentFile = page.currentFile
       /\ (Len(page'.previews) < Len(page.previews)
              /\ \A k \in 1..Len(page.previews) : page.previews[k] # page.currentFile) =>
              page' = [page EXCEPT !.previews = page'.previews]]_vars

\* file 1 was selected, then file 2; the load of file 1 has completed and
\* the text shows the dimensions of file 2
C28_StalePreviewGuardWitness ==
    /\ page.currentFile = 2
    /\ page.selections = 2
    /\ page.previews = << >>
    /\ page.info = [kind |-> "dimensions", file |-> 2]

====
